---- MODULE Spec2Model ----
(***************************************************************************)
(* Self-Deploy: stack inference (TechStackDetector), confidence scoring    *)
(* (RepositoryAnalyzer._calculate_confidence) and GitLab CI pipeline       *)
(* synthesis (PipelineGenerator), modelled as a state machine.             *)
(*                                                                         *)
(* Representation notes                                                    *)
(*  - Python lists and insertion-ordered dicts are sequences; a dict is a  *)
(*    sequence of records or of <<key, value>> pairs in insertion order.   *)
(*  - The pipeline is emitted by the code as YAML text.  The model holds   *)
(*    the document that text denotes: the header mapping and the jobs in   *)
(*    emission order.  A script item is [cmd, nested]: nested = TRUE when  *)
(*    the emitted line is "-     - cmd", i.e. the item is itself a         *)
(*    one-element list.                                                    *)
(*  - Russian literals of the source are written in English, in ASCII.     *)
(*  - Floating-point scores are held in hundredths, percentages in tenths. *)
(*  - File content is a sequence of tokens (strings); the regular          *)
(*    expressions of the manifest parsers run over those tokens.           *)
(***************************************************************************)
EXTENDS Integers, Sequences, FiniteSets, TLC

VARIABLES
    pc,              \* position of the run: which step comes next
    file_structure,  \* List[Dict]: the file records handed to the detector
    project_dir,     \* Optional[str]: "" models None
    disk,            \* full_path -> what the filesystem holds there
    language_stats,  \* result of _count_lines_by_language
    tech_stack,      \* result of detect_tech_stack
    confidence,      \* result of _calculate_confidence, in hundredths
    repository,      \* repo_info: [name |-> ...]
    generators,      \* PipelineGenerator instances: their two feature flags
    pipeline,        \* result of the last generate_gitlab_pipeline call
    calls,           \* log of generate_gitlab_pipeline calls (instance, input, output)
    cleanups,        \* number of RepositoryAnalyzer.cleanup calls in the current run
    console,         \* the line of input() being handled; NoInput between prompts
    git_available    \* RepositoryAnalyzer.git_available: GitPython could be imported

vars == <<pc, file_structure, project_dir, disk, language_stats, tech_stack,
          confidence, repository, generators, pipeline, calls, cleanups, console,
          git_available>>

(***************************************************************************)
(* Generic helpers                                                         *)
(***************************************************************************)
Range(s) == {s[i] : i \in 1..Len(s)}

Min(a, b) == IF a <= b THEN a ELSE b

Abs(a) == IF a < 0 THEN -a ELSE a

RECURSIVE SumSeq(_)
SumSeq(s) == IF s = <<>> THEN 0 ELSE Head(s) + SumSeq(Tail(s))

\* Index of the first occurrence of x in s, 0 when absent.
RECURSIVE IndexFrom(_, _, _)
IndexFrom(s, x, i) ==
    IF i > Len(s) THEN 0
    ELSE IF s[i] = x THEN i
    ELSE IndexFrom(s, x, i + 1)

IndexOf(s, x) == IndexFrom(s, x, 1)

\* The members of set S listed in the order of sequence order: Python's
\* sorted(list(S)) when order lists the candidate strings in code-point order.
RECURSIVE SortedBy(_, _)
SortedBy(S, order) ==
    IF order = <<>> THEN <<>>
    ELSE IF Head(order) \in S THEN <<Head(order)>> \o SortedBy(S, Tail(order))
    ELSE SortedBy(S, Tail(order))

\* All subsets of S with at most n members.
SubsetsUpTo(S, n) == {T \in SUBSET S : Cardinality(T) <= n}

\* str.lower() on the strings the model uses: repository names, extensions and
\* the tokens of names, paths and file content.  Every other string of the
\* model is already lower case or has no letters.
Lower(name) ==
    CASE name = "Repo" -> "repo"
      [] name = "My-App" -> "my-app"
      [] name = "Main" -> "main"
      [] name = "App" -> "app"
      [] name = "Test" -> "test"
      [] name = "C" -> "c"
      [] name = "PY" -> "py"
      [] name = ".PY" -> ".py"
      [] name = "Dockerfile" -> "dockerfile"
      [] name = "Spring" -> "spring"
      [] name = "Django" -> "django"
      [] name = "Flask" -> "flask"
      [] name = "Spring-Boot" -> "spring-boot"
      [] name = "JavaVersion" -> "javaversion"
      [] name = "VERSION_" -> "version_"
      [] name = "sourceCompatibility" -> "sourcecompatibility"
      [] name = "EXIT" -> "exit"
      [] name = "Q" -> "q"
      [] name = "Yes" -> "yes"
      [] name = "N" -> "n"
      [] OTHER -> name

(***************************************************************************)
(* Strings as token sequences.  A name, a path or a file's text is held as *)
(* the sequence of its pieces (each piece a string); the string operations *)
(* and regular expressions of the source act on those pieces.              *)
(***************************************************************************)

\* What Python's \s and str.strip() treat as white space.
WS == {" ", "\t", "\n", "\r"}

\* Tokens made of decimal digits only (what \d+ can consume).
DigitTokens ==
    {"0", "1", "2", "3", "4", "5", "6", "7", "8", "9", "11", "16", "17", "18",
     "19", "20", "21"}

RECURSIVE JoinTokens(_)
JoinTokens(t) == IF t = <<>> THEN "" ELSE Head(t) \o JoinTokens(Tail(t))

LowerSeq(t) == [i \in 1..Len(t) |-> Lower(t[i])]

StartsWith(t, prefix) ==
    Len(t) >= Len(prefix) /\ SubSeq(t, 1, Len(prefix)) = prefix

EndsWith(t, suffix) ==
    Len(t) >= Len(suffix) /\ SubSeq(t, Len(t) - Len(suffix) + 1, Len(t)) = suffix

\* key in t (substring test).
Contains(t, key) ==
    \E i \in 1..(Len(t) - Len(key) + 1) : SubSeq(t, i, i + Len(key) - 1) = key

\* The first index j >= i with t[j] not in class (Len(t) + 1 when none): where
\* a greedy class* started at i stops.
RECURSIVE SkipWhile(_, _, _)
SkipWhile(t, i, class) ==
    IF i > Len(t) THEN i
    ELSE IF t[i] \in class THEN SkipWhile(t, i + 1, class)
    ELSE i

\* os.path.splitext(name)[1]: from the last dot on, unless only dots precede it.
splitext(name_tokens) ==
    LET dots == {i \in 1..Len(name_tokens) : name_tokens[i] = "."}
        lead == SkipWhile(name_tokens, 1, {"."})
        after == {i \in dots : i > lead}
    IN IF after = {} THEN <<>>
       ELSE LET k == CHOOSE i \in after : \A j \in after : j <= i
            IN SubSeq(name_tokens, k, Len(name_tokens))

(***************************************************************************)
(* Sentinels                                                               *)
(***************************************************************************)
NoStack == [primary_language |-> "<none>"]
NoPipeline == [stages |-> <<>>]
NoConfidence == 0 - 1
NoInput == <<"<nothing read>">>

(***************************************************************************)
(* File records and the filesystem                                         *)
(***************************************************************************)

\* The directory the repository was materialized in (RepositoryAnalyzer.temp_dir).
CloneDir == "/tmp/self_deploy_x"

\* One record of _analyze_files for the file dir/name.  name_tokens and
\* path_tokens are the name and path strings in pieces.
File(dir_tokens, name_tokens) ==
    LET path_tokens == dir_tokens \o <<"/">> \o name_tokens IN
    [name |-> JoinTokens(name_tokens),
     type |-> "file",
     extension |-> JoinTokens(splitext(name_tokens)),
     path |-> JoinTokens(path_tokens),
     full_path |-> CloneDir \o JoinTokens(path_tokens),
     name_tokens |-> name_tokens,
     path_tokens |-> path_tokens]

\* One record of _analyze_files for a directory.
Directory(dir_tokens, name_tokens) ==
    [File(dir_tokens, name_tokens) EXCEPT !.type = "directory", !.extension = ""]

\* A parsed JSON or XML document, as far as the parsers look into it.
\*   valid            json.load / ET.parse succeeded
\*   has_node, node   package.json: engines.node present, and its text
\*   dependencies, devDependencies   package.json: the keys of the two maps
\*   namespaced       pom.xml: the elements are in the Maven POM namespace
\*   properties       pom.xml: the children of <properties>, [tag, text]
\*   artifact_ids     pom.xml: the artifactId text of each <dependency>,
\*                    NoneText for an element without text
NoneText == <<"<None>">>

NoDoc ==
    [valid |-> FALSE, has_node |-> FALSE, node |-> <<>>, dependencies |-> {},
     devDependencies |-> {}, namespaced |-> FALSE, properties |-> <<>>,
     artifact_ids |-> <<>>]

\* What the filesystem holds at a path.
OnDisk(size, text, doc) ==
    [exists |-> TRUE, readable |-> TRUE, size |-> size, text |-> text, doc |-> doc]

Missing == [exists |-> FALSE, readable |-> FALSE, size |-> 0, text |-> <<>>, doc |-> NoDoc]

Stat(path) == IF path \in DOMAIN disk THEN disk[path] ELSE Missing

\* n code lines, each followed by a newline.
CodeLines(n) == [i \in 1..(2 * n) |-> IF i % 2 = 1 THEN "x" ELSE "\n"]

\* A source text: a white-space-only line, then n lines of code.
SourceText(n) == <<"\t", "\n">> \o CodeLines(n)

(***************************************************************************)
(* TechStackDetector: line counting and the primary language               *)
(***************************************************************************)

\* language_extensions, in the order of the dict literal.
language_extensions ==
    << <<".js", "JavaScript">>, <<".jsx", "JavaScript">>, <<".ts", "TypeScript">>,
       <<".tsx", "TypeScript">>, <<".mjs", "JavaScript">>, <<".cjs", "JavaScript">>,
       <<".py", "Python">>, <<".pyw", "Python">>, <<".pyx", "Python">>,
       <<".java", "Java">>, <<".kt", "Kotlin">>, <<".kts", "Kotlin">>,
       <<".go", "Go">>,
       <<".rs", "Rust">>, <<".cpp", "C++">>, <<".cc", "C++">>, <<".cxx", "C++">>,
       <<".c", "C">>, <<".h", "C/C++">>, <<".hpp", "C++">>, <<".cs", "C#">>,
       <<".php", "PHP">>, <<".rb", "Ruby">>, <<".swift", "Swift">>,
       <<".scala", "Scala">>, <<".dart", "Dart">> >>

RecognizedExtensions == {language_extensions[i][1] : i \in 1..Len(language_extensions)}

LanguageOf(extension) ==
    language_extensions[CHOOSE i \in 1..Len(language_extensions) :
                            language_extensions[i][1] = extension][2]

\* default_versions.get(language, 'latest')
default_versions(language) ==
    CASE language = "Java" -> "11"
      [] language = "Kotlin" -> "1.8"
      [] language = "Go" -> "1.19"
      [] language = "TypeScript" -> "5.0"
      [] language = "JavaScript" -> "ES2022"
      [] language = "Python" -> "3.9"
      [] OTHER -> "latest"

\* The 1 MiB ceiling of _count_file_lines, in bytes.
MaxFileBytes == 1024 * 1024

\* sum(1 for line in lines if line.strip()) over readlines(): the number of
\* lines of text (universal newlines) holding something that is not white space.
\* A line is identified by the number of line ends before it.
CountSignificant(text) ==
    LET LineOf(i) == Cardinality({j \in 1..i : text[j] \in {"\n", "\r"}})
    IN Cardinality({LineOf(i) : i \in {k \in 1..Len(text) : text[k] \notin WS}})

\* Line counting that opens a file of any size.
count_file_lines_no_ceiling(file_info, dir) ==
    IF dir = "" \/ file_info.full_path = "" THEN 0
    ELSE LET st == Stat(file_info.full_path) IN
         IF ~st.exists THEN 0
         ELSE IF ~st.readable THEN 0
         ELSE CountSignificant(st.text)

\* Line counting that opens the file whether or not a project root was given.
count_file_lines_ignoring_root(file_info, dir) ==
    IF file_info.full_path = "" THEN 0
    ELSE LET st == Stat(file_info.full_path) IN
         IF ~st.exists THEN 0
         ELSE IF st.size > MaxFileBytes THEN 0
         ELSE IF ~st.readable THEN 0
         ELSE CountSignificant(st.text)

count_file_lines(file_info, dir) ==
    IF dir = "" \/ file_info.full_path = "" THEN 0
    ELSE LET st == Stat(file_info.full_path) IN
         IF ~st.exists THEN 0
         ELSE IF st.size > MaxFileBytes THEN 0
         ELSE IF ~st.readable THEN 0      \* open() raises: except Exception
         ELSE CountSignificant(st.text)

\* The counting loop: language_lines (a defaultdict, so in order of first
\* insertion) after the records up to i, as a sequence of [language, lines].
RECURSIVE language_lines_upto(_, _, _)
language_lines_upto(files, dir, i) ==
    IF i = 0 THEN <<>>
    ELSE LET acc == language_lines_upto(files, dir, i - 1)
             file_info == files[i]
             extension == Lower(file_info.extension)
         IN IF file_info.type # "file" THEN acc
            ELSE IF extension \notin RecognizedExtensions THEN acc
            ELSE LET language == LanguageOf(extension)
                     lines_count == count_file_lines(file_info, dir)
                     at == {k \in 1..Len(acc) : acc[k].language = language}
                 IN IF lines_count <= 0 THEN acc
                    ELSE IF at = {}
                    THEN Append(acc, [language |-> language, lines |-> lines_count])
                    ELSE [acc EXCEPT ![CHOOSE k \in at : TRUE].lines = @ + lines_count]

\* The share cut to one decimal instead of rounded.
percentage_of_truncated(lines, total_lines, up) ==
    (1000 * lines) \div total_lines

\* round((lines / total_lines) * 100, 1), in tenths of a percent.  The value
\* is computed in binary floating point; when lines/total*100 lies exactly
\* halfway between two tenths the float result may fall on either side, so
\* the direction is an input: up holds the line counts that round upwards.
percentage_of(lines, total_lines, up) ==
    LET q == (1000 * lines) \div total_lines
        r == (1000 * lines) % total_lines
    IN IF 2 * r > total_lines THEN q + 1
       ELSE IF 2 * r < total_lines THEN q
       ELSE IF lines \in up THEN q + 1 ELSE q

\* The line counts whose percentage is an exact tie.
TieLines(language_lines) ==
    LET total_lines == SumSeq([i \in 1..Len(language_lines) |-> language_lines[i].lines])
    IN {language_lines[i].lines : i \in
            {k \in 1..Len(language_lines) :
                2 * ((1000 * language_lines[k].lines) % total_lines) = total_lines}}

\* sorted(items, key=lines, reverse=True): stable, so equal counts keep their
\* insertion order.
RECURSIVE sorted_by_lines(_)
sorted_by_lines(stats) ==
    IF stats = <<>> THEN <<>>
    ELSE LET rest == sorted_by_lines(SubSeq(stats, 1, Len(stats) - 1))
             x == stats[Len(stats)]
             k == Cardinality({i \in 1..Len(rest) : rest[i].lines >= x.lines})
         IN SubSeq(rest, 1, k) \o <<x>> \o SubSeq(rest, k + 1, Len(rest))

\* The statistics dict built from language_lines: percentages, then the sort.
language_stats_of(language_lines, up) ==
    LET total_lines == SumSeq([i \in 1..Len(language_lines) |-> language_lines[i].lines])
    IN IF total_lines > 0
       THEN sorted_by_lines([i \in 1..Len(language_lines) |->
                [language |-> language_lines[i].language,
                 lines |-> language_lines[i].lines,
                 percentage |-> percentage_of(language_lines[i].lines, total_lines, up)]])
       ELSE <<>>

count_lines_by_language(files, dir, up) ==
    language_stats_of(language_lines_upto(files, dir, Len(files)), up)

exclude_languages == {"JSON", "YAML", "XML", "Markdown", "HTML", "CSS"}

\* Selection that takes the last entry of the statistics.
detect_primary_language_least(stats) ==
    IF stats = <<>> THEN "Unknown" ELSE stats[Len(stats)].language

\* Selection that takes the most voluminous language, excluded or not.
detect_primary_language_no_exclusion(stats) ==
    IF stats = <<>> THEN "Unknown" ELSE stats[1].language

\* Selection that answers the empty name for an empty map.
detect_primary_language_empty_name(stats) ==
    IF stats = <<>> THEN ""
    ELSE LET eligible == {i \in 1..Len(stats) : stats[i].language \notin exclude_languages}
         IN IF eligible = {} THEN stats[1].language
            ELSE stats[CHOOSE i \in eligible : \A j \in eligible : i <= j].language

detect_primary_language(stats) ==
    IF stats = <<>> THEN "Unknown"
    ELSE LET ok == {i \in 1..Len(stats) : stats[i].language \notin exclude_languages}
         IN IF ok # {}
            THEN stats[CHOOSE i \in ok : \A j \in ok : i <= j].language
            ELSE stats[1].language

(***************************************************************************)
(* PipelineGenerator (analyzers/pipeline_generator.py)                     *)
(***************************************************************************)

\* PipelineGenerator.__init__: both optional jobs are enabled.
NewGenerator == [sonarqube_enabled |-> TRUE, nexus_enabled |-> TRUE]

\* A job with every optional key absent.
Job(name, stage, script) ==
    [name |-> name, stage |-> stage, image |-> "", script |-> script,
     artifacts_paths |-> <<>>, allow_failure |-> FALSE, only |-> <<>>,
     when |-> "on_success", coverage |-> ""]

\* A static template's script: one list item per command.
Flat(cmds) == [i \in 1..Len(cmds) |-> [cmd |-> cmds[i], nested |-> FALSE]]

\* The f-string "    - {chr(10).join(f'    - {cmd}' for cmd in cmds)}": the
\* template's own "    - " precedes the first joined line, which already starts
\* with "    - ", so the first command is emitted as "-     - cmd" (a list
\* inside the list item); the following lines are plain items.
JoinedScript(cmds) == [i \in 1..Len(cmds) |-> [cmd |-> cmds[i], nested |-> (i = 1)]]

\* The commands of a script, in order, whatever their nesting.
Commands(script) == [i \in 1..Len(script) |-> script[i].cmd]

get_docker_image_and_variables(primary_language, frameworks, version_info) ==
    LET language_version == version_info.language_version IN
    IF primary_language \in {"JavaScript", "TypeScript"} THEN
        LET node_version == IF language_version # "" THEN language_version ELSE "18" IN
        [image |-> "node:" \o node_version \o "-alpine",
         variables |-> << <<"NPM_CONFIG_CACHE", "$CI_PROJECT_DIR/.npm">>,
                          <<"NODE_OPTIONS", "--max-old-space-size=4096">>,
                          <<"CI", "true">> >>]
    ELSE IF primary_language = "Python" THEN
        LET python_version == IF language_version # "" THEN language_version ELSE "3.9" IN
        [image |-> "python:" \o python_version \o "-slim",
         variables |-> << <<"PIP_CACHE_DIR", "$CI_PROJECT_DIR/.cache/pip">>,
                          <<"PYTHONPATH", "$CI_PROJECT_DIR">>,
                          <<"PYTHONUNBUFFERED", "1">> >>]
    ELSE IF primary_language \in {"Java", "Kotlin"} THEN
        LET java_version == IF language_version # "" THEN language_version ELSE "11" IN
        [image |-> "maven:3.8-openjdk-" \o java_version,
         variables |-> << <<"MAVEN_OPTS", "-Dmaven.repo.local=$CI_PROJECT_DIR/.m2/repository -Xmx1024m">>,
                          <<"MAVEN_CLI_OPTS", "--batch-mode --errors --fail-at-end --show-version">> >>]
    ELSE IF primary_language = "Go" THEN
        LET go_version == IF language_version # "" THEN language_version ELSE "1.19" IN
        [image |-> "golang:" \o go_version \o "-alpine",
         variables |-> << <<"GOCACHE", "$CI_PROJECT_DIR/.cache/go-build">>,
                          <<"GOPATH", "$CI_PROJECT_DIR/.go">>,
                          <<"CGO_ENABLED", "0">> >>]
    ELSE
        [image |-> "alpine:latest", variables |-> <<>>]

\* The cache chosen by build tool when the language has no branch.
generate_cache_config_by_tool(primary_language, build_tools) ==
    LET cache_paths ==
            IF primary_language \in {"JavaScript", "TypeScript"} \/ "npm" \in Range(build_tools)
            THEN <<".npm/", "node_modules/">>
            ELSE IF primary_language = "Python" THEN <<".cache/pip/", "__pycache__/", ".pytest_cache/">>
            ELSE IF primary_language \in {"Java", "Kotlin"} THEN <<".m2/repository/", ".gradle/">>
            ELSE IF primary_language = "Go" THEN <<".cache/go-build/", ".go/">>
            ELSE <<>>
    IN [key |-> "$CI_COMMIT_REF_SLUG", paths |-> cache_paths, policy |-> "pull-push"]

generate_cache_config(primary_language, build_tools) ==
    LET cache_paths ==
            IF primary_language \in {"JavaScript", "TypeScript"} THEN <<".npm/", "node_modules/">>
            ELSE IF primary_language = "Python" THEN <<".cache/pip/", "__pycache__/", ".pytest_cache/">>
            ELSE IF primary_language \in {"Java", "Kotlin"} THEN <<".m2/repository/", ".gradle/">>
            ELSE IF primary_language = "Go" THEN <<".cache/go-build/", ".go/">>
            ELSE <<>>
    IN [key |-> "$CI_COMMIT_REF_SLUG", paths |-> cache_paths, policy |-> "pull-push"]

generate_before_script(primary_language, build_tools, frameworks) ==
    IF primary_language \in {"JavaScript", "TypeScript"} THEN
        IF "npm" \in Range(build_tools) THEN <<"npm ci --cache .npm --prefer-offline">>
        ELSE IF "yarn" \in Range(build_tools) THEN <<"yarn install --frozen-lockfile --cache-folder .yarn">>
        ELSE IF "pnpm" \in Range(build_tools) THEN <<"pnpm install --frozen-lockfile">>
        ELSE <<>>
    ELSE IF primary_language = "Python" THEN
        <<"python -m pip install --upgrade pip",
          "pip install -r requirements.txt --cache-dir .cache/pip">>
    ELSE IF primary_language \in {"Java", "Kotlin"} /\ "maven" \in Range(build_tools) THEN
        <<"mvn dependency:go-offline $MAVEN_CLI_OPTS">>
    ELSE <<>>

\* The final return of _generate_build_job (the source echoes a Russian
\* reminder: "configure the build commands for your project").
GenericBuildJob ==
    [Job("build", "build", Flat(<<"echo \"Configure the build commands for your project\"">>))
        EXCEPT !.artifacts_paths = <<"build/">>]

\* Build job that takes Maven for a JVM project without a build tool.
generate_build_job_maven_default(primary_language, build_tools, frameworks) ==
    IF primary_language \in {"JavaScript", "TypeScript"} THEN
        LET script_commands ==
                IF \/ "React" \in Range(frameworks) \/ "Vue.js" \in Range(frameworks)
                   \/ "Angular" \in Range(frameworks) \/ "Next.js" \in Range(frameworks)
                THEN <<"npm run build">>
                ELSE <<"npm run build || echo \"No build script found\"">>
        IN [Job("build", "build", JoinedScript(script_commands))
                EXCEPT !.artifacts_paths = <<"dist/", "build/", ".next/", "out/">>,
                       !.only = <<"branches">>]
    ELSE IF primary_language = "Python" THEN
        LET script_commands ==
                <<"python -m compileall .">> \o
                (IF "Django" \in Range(frameworks)
                 THEN <<"python manage.py collectstatic --noinput",
                        "python manage.py check --deploy">>
                 ELSE <<>>)
        IN [Job("build", "build", JoinedScript(script_commands))
                EXCEPT !.artifacts_paths = <<"staticfiles/", "*.pyc">>]
    ELSE IF primary_language \in {"Java", "Kotlin"} /\ "maven" \in Range(build_tools) THEN
        [Job("build", "build", Flat(<<"mvn clean compile $MAVEN_CLI_OPTS",
                                      "mvn package -DskipTests $MAVEN_CLI_OPTS">>))
            EXCEPT !.artifacts_paths = <<"target/*.jar", "target/*.war">>]
    ELSE IF primary_language \in {"Java", "Kotlin"} /\ "gradle" \in Range(build_tools) THEN
        [Job("build", "build", Flat(<<"./gradlew clean build -x test --no-daemon">>))
            EXCEPT !.artifacts_paths = <<"build/libs/*.jar">>]
    ELSE IF primary_language \in {"Java", "Kotlin"} THEN
        [Job("build", "build", Flat(<<"mvn clean compile $MAVEN_CLI_OPTS",
                                      "mvn package -DskipTests $MAVEN_CLI_OPTS">>))
            EXCEPT !.artifacts_paths = <<"target/*.jar", "target/*.war">>]
    ELSE IF primary_language = "Go" THEN
        [Job("build", "build", Flat(<<"go mod download", "go build -v -o app ./...">>))
            EXCEPT !.artifacts_paths = <<"app">>]
    ELSE GenericBuildJob

generate_build_job(primary_language, build_tools, frameworks) ==
    IF primary_language \in {"JavaScript", "TypeScript"} THEN
        LET script_commands ==
                IF \/ "React" \in Range(frameworks) \/ "Vue.js" \in Range(frameworks)
                   \/ "Angular" \in Range(frameworks) \/ "Next.js" \in Range(frameworks)
                THEN <<"npm run build">>
                ELSE <<"npm run build || echo \"No build script found\"">>
        IN [Job("build", "build", JoinedScript(script_commands))
                EXCEPT !.artifacts_paths = <<"dist/", "build/", ".next/", "out/">>,
                       !.only = <<"branches">>]
    ELSE IF primary_language = "Python" THEN
        LET script_commands ==
                <<"python -m compileall .">> \o
                (IF "Django" \in Range(frameworks)
                 THEN <<"python manage.py collectstatic --noinput",
                        "python manage.py check --deploy">>
                 ELSE <<>>)
        IN [Job("build", "build", JoinedScript(script_commands))
                EXCEPT !.artifacts_paths = <<"staticfiles/", "*.pyc">>]
    ELSE IF primary_language \in {"Java", "Kotlin"} /\ "maven" \in Range(build_tools) THEN
        [Job("build", "build", Flat(<<"mvn clean compile $MAVEN_CLI_OPTS",
                                      "mvn package -DskipTests $MAVEN_CLI_OPTS">>))
            EXCEPT !.artifacts_paths = <<"target/*.jar", "target/*.war">>]
    ELSE IF primary_language \in {"Java", "Kotlin"} /\ "gradle" \in Range(build_tools) THEN
        [Job("build", "build", Flat(<<"./gradlew clean build -x test --no-daemon">>))
            EXCEPT !.artifacts_paths = <<"build/libs/*.jar">>]
    ELSE IF primary_language \in {"Java", "Kotlin"} THEN
        \* neither maven nor gradle: the branch returns nothing and control
        \* reaches the final return
        GenericBuildJob
    ELSE IF primary_language = "Go" THEN
        [Job("build", "build", Flat(<<"go mod download", "go build -v -o app ./...">>))
            EXCEPT !.artifacts_paths = <<"app">>]
    ELSE GenericBuildJob

\* The final return of _generate_test_job ("configure the test commands").
GenericTestJob ==
    Job("test", "test", Flat(<<"echo \"Configure the test commands\"">>))

generate_test_job(primary_language, build_tools, frameworks) ==
    IF primary_language \in {"JavaScript", "TypeScript"} THEN
        LET test_commands ==
                IF "React" \in Range(frameworks)
                THEN <<"npm test -- --coverage --watchAll=false --ci">>
                ELSE IF "Vue.js" \in Range(frameworks)
                THEN <<"npm run test:unit">>
                ELSE IF "Angular" \in Range(frameworks)
                THEN <<"npm run test -- --watch=false --browsers=ChromeHeadless --code-coverage">>
                ELSE <<"npm test">>
        IN [Job("test", "test", JoinedScript(test_commands))
                EXCEPT !.artifacts_paths = <<"coverage/">>,
                       !.coverage = "/Lines\\s*:\\s*(\\d+\\.?\\d*)%/"]
    ELSE IF primary_language = "Python" THEN
        IF "Django" \in Range(frameworks) THEN
            [Job("test", "test", Flat(<<"coverage run --source='.' manage.py test --keepdb",
                                        "coverage xml",
                                        "coverage report">>))
                EXCEPT !.coverage = "/TOTAL.+ ([0-9]{1,3}%)/"]
        ELSE
            [Job("test", "test",
                 Flat(<<"pytest --junitxml=test-results.xml --cov=. --cov-report=xml --cov-report=term">>))
                EXCEPT !.coverage = "/TOTAL.+ ([0-9]{1,3}%)/"]
    ELSE IF primary_language \in {"Java", "Kotlin"} /\ "maven" \in Range(build_tools) THEN
        [Job("test", "test", Flat(<<"mvn test $MAVEN_CLI_OPTS",
                                    "mvn jacoco:report $MAVEN_CLI_OPTS">>))
            EXCEPT !.artifacts_paths = <<"target/site/jacoco/">>]
    ELSE IF primary_language \in {"Java", "Kotlin"} /\ "gradle" \in Range(build_tools) THEN
        [Job("test", "test", Flat(<<"./gradlew test jacocoTestReport --no-daemon">>))
            EXCEPT !.artifacts_paths = <<"build/reports/jacoco/test/html/">>]
    ELSE IF primary_language \in {"Java", "Kotlin"} THEN
        GenericTestJob
    ELSE IF primary_language = "Go" THEN
        [Job("test", "test", Flat(<<"go test -v ./... -coverprofile=coverage.out",
                                    "go tool cover -func=coverage.out">>))
            EXCEPT !.artifacts_paths = <<"coverage.out">>,
                   !.coverage = "/total:.*?([0-9.]+)%/"]
    ELSE GenericTestJob

\* A quality job whose Go template lost its allow_failure key.
generate_quality_job_go_blocking(primary_language, frameworks) ==
    IF primary_language = "Go" THEN
        Job("code-quality", "quality",
            Flat(<<"go fmt ./...", "go vet ./...",
                   "go install golang.org/x/lint/golint@latest",
                   "golint ./... || true">>))
    ELSE
        [Job("code-quality", "quality", Flat(<<"echo \"Configure the code quality check\"">>))
            EXCEPT !.allow_failure = TRUE]

generate_quality_job(primary_language, frameworks) ==
    IF primary_language \in {"JavaScript", "TypeScript"} THEN
        [Job("code-quality", "quality",
             Flat(<<"npm run lint || npx eslint . --ext .js,.jsx,.ts,.tsx --format gitlab --output-file eslint-report.json || true",
                    "npx prettier --check . || true">>))
            EXCEPT !.allow_failure = TRUE]
    ELSE IF primary_language = "Python" THEN
        [Job("code-quality", "quality",
             Flat(<<"pip install flake8 black mypy",
                    "flake8 . --format=json --output-file=flake8-report.json || true",
                    "black --check . || true",
                    "mypy . --ignore-missing-imports || true">>))
            EXCEPT !.allow_failure = TRUE]
    ELSE IF primary_language \in {"Java", "Kotlin"} THEN
        [Job("code-quality", "quality",
             Flat(<<"mvn checkstyle:check $MAVEN_CLI_OPTS || true",
                    "mvn pmd:check $MAVEN_CLI_OPTS || true">>))
            EXCEPT !.allow_failure = TRUE]
    ELSE IF primary_language = "Go" THEN
        [Job("code-quality", "quality",
             Flat(<<"go fmt ./...",
                    "go vet ./...",
                    "go install golang.org/x/lint/golint@latest",
                    "golint ./... || true">>))
            EXCEPT !.allow_failure = TRUE]
    ELSE
        \* the source echoes "configure the code quality check"
        [Job("code-quality", "quality", Flat(<<"echo \"Configure the code quality check\"">>))
            EXCEPT !.allow_failure = TRUE]

\* The script is one plain scalar folded over five lines.
generate_sonarqube_job(primary_language) ==
    [Job("sonarqube-check", "quality",
         Flat(<<"sonar-scanner -Dsonar.projectKey=$CI_PROJECT_NAME -Dsonar.sources=. -Dsonar.host.url=$SONAR_HOST_URL -Dsonar.login=$SONAR_TOKEN">>))
        EXCEPT !.image = "sonarsource/sonar-scanner-cli:latest",
               !.allow_failure = TRUE,
               !.only = <<"main", "develop">>]

\* The first command echoes "packaging artifacts for deployment".
generate_package_job(primary_language, frameworks) ==
    [Job("package", "package",
         Flat(<<"echo \"Packaging artifacts for deployment\"",
                "tar -czf application.tar.gz dist/ build/ staticfiles/ target/ app || true">>))
        EXCEPT !.artifacts_paths = <<"application.tar.gz">>,
               !.only = <<"main", "develop">>]

\* The first command echoes "uploading artifacts to Nexus Repository"; the
\* second is a literal block.
generate_nexus_upload_job(primary_language) ==
    [Job("nexus-upload", "package",
         Flat(<<"echo \"Uploading artifacts to Nexus Repository\"",
                "curl -v -u $NEXUS_USER:$NEXUS_PASSWORD \\\n  --upload-file application.tar.gz \\\n  $NEXUS_URL/repository/releases/$CI_PROJECT_NAME/$CI_COMMIT_TAG/application.tar.gz\n">>))
        EXCEPT !.only = <<"tags">>,
               !.when = "manual"]

generate_docker_build_job(repo_name) ==
    LET tag == "$CI_REGISTRY_IMAGE:" \o Lower(repo_name) \o "-$CI_COMMIT_SHA" IN
    [Job("docker-build", "docker-build",
         Flat(<<"echo \"Building Docker image with multi-stage build...\"",
                "docker build --build-arg CI_COMMIT_SHA=$CI_COMMIT_SHA --build-arg CI_COMMIT_REF_NAME=$CI_COMMIT_REF_NAME --cache-from $CI_REGISTRY_IMAGE:latest -t "
                    \o tag \o " -t $CI_REGISTRY_IMAGE:latest .",
                "docker push " \o tag,
                "docker push $CI_REGISTRY_IMAGE:latest",
                "if [ \"$CI_COMMIT_BRANCH\" == \"main\" ]; then\n  docker tag " \o tag
                    \o " $CI_REGISTRY_IMAGE:stable\n  docker push $CI_REGISTRY_IMAGE:stable\nfi\n">>))
        EXCEPT !.image = "docker:24-cli",
               !.only = <<"main", "develop">>]

\* The scan job in a stage of its own that the stage list does not name.
generate_docker_security_scan_job_own_stage(repo_name) ==
    LET tag == "$CI_REGISTRY_IMAGE:" \o Lower(repo_name) \o "-$CI_COMMIT_SHA" IN
    [Job("docker-security-scan", "security-scan",
         Flat(<<"trivy image --format template --template \"@contrib/gitlab.tpl\" --output gl-container-scanning-report.json "
                    \o tag>>))
        EXCEPT !.image = "aquasec/trivy:latest",
               !.allow_failure = TRUE,
               !.only = <<"main", "develop">>]

\* The scan job without its branch restriction.
generate_docker_security_scan_job_unrestricted(repo_name) ==
    LET tag == "$CI_REGISTRY_IMAGE:" \o Lower(repo_name) \o "-$CI_COMMIT_SHA" IN
    [Job("docker-security-scan", "docker-build",
         Flat(<<"trivy image --format template --template \"@contrib/gitlab.tpl\" --output gl-container-scanning-report.json "
                    \o tag>>))
        EXCEPT !.image = "aquasec/trivy:latest",
               !.allow_failure = TRUE]

generate_docker_security_scan_job(repo_name) ==
    LET tag == "$CI_REGISTRY_IMAGE:" \o Lower(repo_name) \o "-$CI_COMMIT_SHA" IN
    [Job("docker-security-scan", "docker-build",
         Flat(<<"trivy image --format template --template \"@contrib/gitlab.tpl\" --output gl-container-scanning-report.json "
                    \o tag>>))
        EXCEPT !.image = "aquasec/trivy:latest",
               !.allow_failure = TRUE,
               !.only = <<"main", "develop">>]

\* str(has_dockerfile) as the f-string interpolates it.
BoolStr(b) == IF b THEN "True" ELSE "False"

\* Deployment jobs whose staging rollout starts by itself.
generate_deployment_jobs_auto_staging(repo_name, has_dockerfile) ==
    <<[Job("deploy-staging", "deploy-staging",
           Flat(<<"echo \"Deploying to the staging environment\"",
                  "kubectl config use-context staging">>))
          EXCEPT !.image = "bitnami/kubectl:latest", !.only = <<"develop">>],
      [Job("deploy-production", "deploy-production",
           Flat(<<"echo \"Deploying to the production environment\"",
                  "kubectl config use-context production">>))
          EXCEPT !.image = "bitnami/kubectl:latest", !.only = <<"main">>,
                 !.when = "manual"]>>

\* The third command of each job is a literal block; its else branch echoes
\* "deployment without Docker (for example, on a VM)".
generate_deployment_jobs(repo_name, has_dockerfile) ==
    LET name == Lower(repo_name)
        image_ref == IF has_dockerfile
                     THEN "$CI_REGISTRY_IMAGE:" \o name \o "-$CI_COMMIT_SHA"
                     ELSE "application.tar.gz"
        rollout == "if [ \"" \o BoolStr(has_dockerfile) \o "\" == \"True\" ]; then\n  kubectl set image deployment/"
                   \o name \o " " \o name \o "=" \o image_ref
                   \o "\n  kubectl rollout status deployment/" \o name
                   \o "\nelse\n  echo \"Deployment without Docker (for example, on a VM)\"\nfi\n"
    IN <<
        [Job("deploy-staging", "deploy-staging",
             Flat(<<"echo \"Deploying to the staging environment\"",
                    "kubectl config use-context staging",
                    rollout>>))
            EXCEPT !.image = "bitnami/kubectl:latest",
                   !.only = <<"develop">>,
                   !.when = "manual"],
        [Job("deploy-production", "deploy-production",
             Flat(<<"echo \"Deploying to the production environment\"",
                    "kubectl config use-context production",
                    rollout>>))
            EXCEPT !.image = "bitnami/kubectl:latest",
                   !.only = <<"main">>,
                   !.when = "manual"]
    >>

\* The stage list with docker-build appended after the deployment stages.
generate_stages_docker_last(has_dockerfile) ==
    <<"build", "test", "quality", "package">> \o
    (IF has_dockerfile
     THEN <<"deploy-staging", "deploy-production", "docker-build">>
     ELSE <<"deploy-staging", "deploy-production">>)

\* The stage list built at the top of generate_gitlab_pipeline.
generate_stages(has_dockerfile) ==
    <<"build", "test", "quality", "package">> \o
    (IF has_dockerfile
     THEN <<"docker-build", "deploy-staging", "deploy-production">>
     ELSE <<"deploy-staging", "deploy-production">>)

\* generate_gitlab_pipeline as a function of the instance's fields (self) and
\* its argument: the header mapping, then the jobs in the order their text is
\* appended.
generate_gitlab_pipeline_doc(self, analysis_result) ==
    LET ts == analysis_result.tech_stack
        repo == analysis_result.repository
        primary_language == ts.primary_language
        build_tools == ts.build_tools
        frameworks == ts.frameworks
        has_tests == ts.has_tests
        has_dockerfile == ts.has_dockerfile
        version_info == ts.version_info
        iv == get_docker_image_and_variables(primary_language, frameworks, version_info)
    IN [stages |-> generate_stages(has_dockerfile),
        variables |-> iv.variables,
        image |-> iv.image,
        cache |-> generate_cache_config(primary_language, build_tools),
        before_script |-> generate_before_script(primary_language, build_tools, frameworks),
        jobs |->
            <<generate_build_job(primary_language, build_tools, frameworks)>>
            \o (IF has_tests
                THEN <<generate_test_job(primary_language, build_tools, frameworks)>>
                ELSE <<>>)
            \o <<generate_quality_job(primary_language, frameworks)>>
            \o (IF self.sonarqube_enabled
                THEN <<generate_sonarqube_job(primary_language)>>
                ELSE <<>>)
            \o <<generate_package_job(primary_language, frameworks)>>
            \o (IF self.nexus_enabled
                THEN <<generate_nexus_upload_job(primary_language)>>
                ELSE <<>>)
            \o (IF has_dockerfile
                THEN <<generate_docker_build_job(repo.name),
                       generate_docker_security_scan_job(repo.name)>>
                ELSE <<>>)
            \o generate_deployment_jobs(repo.name, has_dockerfile)]

(***************************************************************************)
(* Profiles handed to the synthesizer directly (not produced by detection) *)
(***************************************************************************)

\* Largest number of build tools, and of frameworks, in a drawn profile.
MaxTools == 2
MaxFrameworks == 2

\* sorted() order (code points) of every framework name the detector emits.
FrameworkOrder ==
    <<"Angular", "Chi", "Cypress", "Django", "Echo", "Express.js", "FastAPI",
      "Fastify", "Fiber", "Flask", "GORM", "Gin", "Gorilla Mux", "Hibernate",
      "JUnit", "Jest", "Koa", "Kotlin", "Mocha", "Mockito", "NestJS", "Next.js",
      "NumPy", "Nuxt.js", "Pandas", "Poetry", "PyTorch", "React", "Sanic",
      "Spring Boot", "Spring Framework", "Spring Web", "Starlette", "Streamlit",
      "Svelte", "TensorFlow", "Tornado", "TypeScript", "Vite", "Vue.js",
      "Webpack", "aiohttp", "pytest", "unittest">>

\* sorted() order of every build tool name of _detect_build_tools.
BuildToolOrder ==
    <<"cargo", "go", "gradle", "make", "maven", "npm", "pip", "pipenv", "pnpm",
      "poetry", "vite", "webpack", "yarn">>

\* The four first-class ecosystems (six language names) and two others.
ProfileLanguages ==
    {"JavaScript", "TypeScript", "Python", "Java", "Kotlin", "Go", "Rust", "Unknown"}

FirstClassLanguages == {"JavaScript", "TypeScript", "Python", "Java", "Kotlin", "Go"}

\* The names the synthesizer branches on.
ProfileTools == {"npm", "yarn", "pnpm", "maven", "gradle"}
ProfileFrameworks == {"React", "Vue.js", "Angular", "Next.js", "Django"}
ProfileVersions == {"", "1.21"}
RepoNames == {"Repo", "My-App"}

MakeProfile(lang, ver, fws, tools, tests, docker) ==
    [primary_language |-> lang,
     language_stats |-> <<>>,
     version_info |-> [language_version |-> ver, framework_versions |-> <<>>],
     frameworks |-> SortedBy(fws, FrameworkOrder),
     build_tools |-> SortedBy(tools, BuildToolOrder),
     package_managers |-> SortedBy(tools, BuildToolOrder),
     has_tests |-> tests,
     has_dockerfile |-> docker]

Profiles ==
    {MakeProfile(lang, ver, fws, tools, tests, docker) :
        lang \in ProfileLanguages, ver \in ProfileVersions,
        fws \in SubsetsUpTo(ProfileFrameworks, MaxFrameworks),
        tools \in SubsetsUpTo(ProfileTools, MaxTools),
        tests \in BOOLEAN, docker \in BOOLEAN}

\* The same profile with the container flag flipped.
FlipDocker(ts) == [ts EXCEPT !.has_dockerfile = ~ts.has_dockerfile]

(***************************************************************************)
(* TechStackDetector: manifests                                            *)
(*                                                                         *)
(* Token conventions of the texts: white space, punctuation marks and      *)
(* maximal digit runs are tokens of their own, and so is every piece a     *)
(* pattern or key of the source can match on ("cargo" is "car","go";       *)
(* "tests" is "test","s").  A version that was not found (None) is "".     *)
(***************************************************************************)

find_file(files, filename) ==
    LET hits == {k \in 1..Len(files) : files[k].name = filename}
    IN IF hits = {} THEN ""
       ELSE files[CHOOSE k \in hits : \A j \in hits : k <= j].full_path

\* open(path).read(): the text, or FALSE in ok when open or decoding raises.
ReadText(path) ==
    LET st == Stat(path)
    IN [ok |-> st.exists /\ st.readable, text |-> st.text]

\* json.load / ET.parse of the file: ok is FALSE when either raises.
ReadDoc(path) ==
    LET st == Stat(path)
    IN [ok |-> st.exists /\ st.readable /\ st.doc.valid, doc |-> st.doc]

FirstOf(S) == CHOOSE i \in S : \A j \in S : i <= j

IsDigits(t, i) == i >= 1 /\ i <= Len(t) /\ t[i] \in DigitTokens

\* \d+(?:\.\d+)? matched at i (t[i] a digit run): the matched tokens.
DigitsOptFraction(t, i) ==
    IF i + 2 <= Len(t) /\ t[i + 1] = "." /\ IsDigits(t, i + 2)
    THEN SubSeq(t, i, i + 2) ELSE SubSeq(t, i, i)

\* re.search(r'go\s+(\d+\.\d+(?:\.\d+)?)', content): a match starts at i.
GoPatternAt(t, i) ==
    /\ t[i] = "go"
    /\ LET j == SkipWhile(t, i + 1, WS)
       IN j > i + 1 /\ IsDigits(t, j) /\ j + 2 <= Len(t)
          /\ t[j + 1] = "." /\ IsDigits(t, j + 2)

GoPatternGroup(t, i) ==
    LET j == SkipWhile(t, i + 1, WS)
    IN IF j + 4 <= Len(t) /\ t[j + 3] = "." /\ IsDigits(t, j + 4)
       THEN SubSeq(t, j, j + 4) ELSE SubSeq(t, j, j + 2)

extract_go_version(file_path) ==
    LET f == ReadText(file_path)
        hits == {i \in 1..Len(f.text) : GoPatternAt(f.text, i)}
    IN IF ~f.ok \/ hits = {} THEN ""
       ELSE JoinTokens(GoPatternGroup(f.text, FirstOf(hits)))

Quotes == {"\"", "'"}

\* sourceCompatibility\s*=\s*["']?(\d+(?:\.\d+)?)["']? : where the group starts
\* for a match at i, 0 when there is no match at i.
SourceCompatibilityAt(t, i) ==
    IF t[i] # "sourceCompatibility" THEN 0
    ELSE LET j == SkipWhile(t, i + 1, WS)
         IN IF j > Len(t) \/ t[j] # "=" THEN 0
            ELSE LET k == SkipWhile(t, j + 1, WS)
                     d == IF k <= Len(t) /\ t[k] \in Quotes THEN k + 1 ELSE k
                 IN IF IsDigits(t, k) THEN k
                    ELSE IF IsDigits(t, d) THEN d ELSE 0

\* JavaVersion\.VERSION_(\d+)
JavaVersionAt(t, i) ==
    /\ i + 3 <= Len(t)
    /\ SubSeq(t, i, i + 2) = <<"JavaVersion", ".", "VERSION_">>
    /\ IsDigits(t, i + 3)

extract_java_version_from_gradle(file_path) ==
    LET f == ReadText(file_path)
        t == f.text
        first == {i \in 1..Len(t) : SourceCompatibilityAt(t, i) # 0}
        second == {i \in 1..Len(t) : JavaVersionAt(t, i)}
    IN IF ~f.ok THEN ""
       ELSE IF first # {}
       THEN JoinTokens(DigitsOptFraction(t, SourceCompatibilityAt(t, FirstOf(first))))
       ELSE IF second # {} THEN t[FirstOf(second) + 3]
       ELSE ""

\* requires-python\s*=\s*["']([^"']+)["'] : for a match at i the pair
\* <<first, last>> of the group, <<0, 0>> when there is no match at i.
RequiresPythonAt(t, i) ==
    IF t[i] # "requires-python" THEN <<0, 0>>
    ELSE LET j == SkipWhile(t, i + 1, WS)
         IN IF j > Len(t) \/ t[j] # "=" THEN <<0, 0>>
            ELSE LET k == SkipWhile(t, j + 1, WS)
                 IN IF k > Len(t) \/ t[k] \notin Quotes THEN <<0, 0>>
                    ELSE LET e == SkipWhile(t, k + 1, {x \in Range(t) : x \notin Quotes})
                         IN IF e > Len(t) \/ e = k + 1 THEN <<0, 0>>
                            ELSE <<k + 1, e - 1>>

extract_python_version_from_pyproject(file_path) ==
    LET f == ReadText(file_path)
        t == f.text
        hits == {i \in 1..Len(t) : RequiresPythonAt(t, i) # <<0, 0>>}
    IN IF ~f.ok \/ hits = {} THEN ""
       ELSE LET g == RequiresPythonAt(t, FirstOf(hits))
                version_spec == SubSeq(t, g[1], g[2])
                \* (\d+\.\d+)
                vm == {i \in 1..Len(version_spec) :
                          /\ IsDigits(version_spec, i)
                          /\ i + 2 <= Len(version_spec)
                          /\ version_spec[i + 1] = "."
                          /\ IsDigits(version_spec, i + 2)}
            IN IF vm = {} THEN ""
               ELSE JoinTokens(SubSeq(version_spec, FirstOf(vm), FirstOf(vm) + 2))

extract_node_version(file_path) ==
    LET f == ReadDoc(file_path)
        node_version == f.doc.node
        \* (\d+(?:\.\d+)?)
        vm == {i \in 1..Len(node_version) : IsDigits(node_version, i)}
    IN IF ~f.ok \/ ~f.doc.has_node \/ vm = {} THEN ""
       ELSE JoinTokens(DigitsOptFraction(node_version, FirstOf(vm)))

\* The first child of <properties> whose tag mentions java.version or
\* maven.compiler.source; its text ("" when the element is empty).
extract_java_version_from_pom(file_path) ==
    LET f == ReadDoc(file_path)
        properties == f.doc.properties
        hits == {i \in 1..Len(properties) :
                    \/ Contains(properties[i].tag, <<"java", ".", "version">>)
                    \/ Contains(properties[i].tag, <<"maven", ".", "compiler", ".", "source">>)}
    IN IF ~f.ok \/ hits = {} THEN ""
       ELSE properties[FirstOf(hits)].text

\* Version detection that never opens a manifest.
detect_versions_defaults_only(files, dir, primary_language) ==
    [language_version |-> default_versions(primary_language), framework_versions |-> <<>>]

\* Version detection that reads build.gradle first and pom.xml last.
detect_versions_pom_last(files, dir, primary_language) ==
    LET default == default_versions(primary_language)
        Hint(filename) == IF find_file(files, filename) # "" /\ dir # ""
                          THEN find_file(files, filename) ELSE ""
        Override(current, version) == IF version # "" THEN version ELSE current
        language_version ==
            IF primary_language = "Java"
            THEN LET from_gradle ==
                        IF Hint("build.gradle") # ""
                        THEN Override(default,
                                      extract_java_version_from_gradle(Hint("build.gradle")))
                        ELSE default
                 IN IF Hint("pom.xml") # ""
                    THEN Override(from_gradle, extract_java_version_from_pom(Hint("pom.xml")))
                    ELSE from_gradle
            ELSE IF primary_language = "Go"
            THEN IF Hint("go.mod") # ""
                 THEN Override(default, extract_go_version(Hint("go.mod")))
                 ELSE default
            ELSE IF primary_language = "Python"
            THEN IF Hint("pyproject.toml") # ""
                 THEN Override(default,
                               extract_python_version_from_pyproject(Hint("pyproject.toml")))
                 ELSE default
            ELSE IF primary_language \in {"TypeScript", "JavaScript"}
            THEN IF Hint("package.json") # ""
                 THEN Override(default, extract_node_version(Hint("package.json")))
                 ELSE default
            ELSE default
    IN [language_version |-> language_version, framework_versions |-> <<>>]

detect_versions(files, dir, primary_language) ==
    LET default == default_versions(primary_language)
        Hint(filename) == IF find_file(files, filename) # "" /\ dir # ""
                          THEN find_file(files, filename) ELSE ""
        Override(current, version) == IF version # "" THEN version ELSE current
        language_version ==
            IF primary_language = "Java"
            THEN LET from_pom ==
                        IF Hint("pom.xml") # ""
                        THEN Override(default, extract_java_version_from_pom(Hint("pom.xml")))
                        ELSE default
                 IN IF Hint("build.gradle") # ""
                    THEN Override(from_pom,
                                  extract_java_version_from_gradle(Hint("build.gradle")))
                    ELSE from_pom
            ELSE IF primary_language = "Go"
            THEN IF Hint("go.mod") # ""
                 THEN Override(default, extract_go_version(Hint("go.mod")))
                 ELSE default
            ELSE IF primary_language = "Python"
            THEN IF Hint("pyproject.toml") # ""
                 THEN Override(default,
                               extract_python_version_from_pyproject(Hint("pyproject.toml")))
                 ELSE default
            ELSE IF primary_language \in {"TypeScript", "JavaScript"}
            THEN IF Hint("package.json") # ""
                 THEN Override(default, extract_node_version(Hint("package.json")))
                 ELSE default
            ELSE default
    IN [language_version |-> language_version, framework_versions |-> <<>>]

\* The values of a framework_mapping whose key satisfies Hit.
Mapped(framework_mapping, Hit(_)) ==
    {framework_mapping[i][2] : i \in {k \in 1..Len(framework_mapping) :
                                          Hit(framework_mapping[k][1])}}

package_json_mapping ==
    << <<"react", "React">>, <<"@types/react", "React">>, <<"react-dom", "React">>,
       <<"react-scripts", "React">>, <<"next", "Next.js">>, <<"nuxt", "Nuxt.js">>,
       <<"vue", "Vue.js">>, <<"@vue/cli", "Vue.js">>, <<"@angular/core", "Angular">>,
       <<"svelte", "Svelte">>, <<"express", "Express.js">>, <<"koa", "Koa">>,
       <<"fastify", "Fastify">>, <<"@nestjs/core", "NestJS">>,
       <<"typescript", "TypeScript">>, <<"webpack", "Webpack">>, <<"vite", "Vite">>,
       <<"jest", "Jest">>, <<"mocha", "Mocha">>, <<"cypress", "Cypress">> >>

analyze_package_json(file_path) ==
    LET f == ReadDoc(file_path)
        dependencies == f.doc.dependencies \cup f.doc.devDependencies
        InDeps(dep_name) == dep_name \in dependencies
    IN IF ~f.ok THEN {} ELSE Mapped(package_json_mapping, InDeps)

\* The lines of a text, each without its line end.
RECURSIVE TextLines(_)
TextLines(t) ==
    IF t = <<>> THEN <<>>
    ELSE LET e == SkipWhile(t, 1, {x \in Range(t) : x # "\n"})
         IN <<SubSeq(t, 1, e - 1)>> \o TextLines(SubSeq(t, e + 1, Len(t)))

\* str.strip()
Strip(t) ==
    LET b == SkipWhile(t, 1, WS)
        keep == {i \in b..Len(t) : t[i] \notin WS}
    IN IF keep = {} THEN <<>>
       ELSE SubSeq(t, b, CHOOSE i \in keep : \A j \in keep : j <= i)

requirements_mapping ==
    << <<"django", "Django">>, <<"flask", "Flask">>, <<"fastapi", "FastAPI">>,
       <<"tornado", "Tornado">>, <<"sanic", "Sanic">>, <<"starlette", "Starlette">>,
       <<"aiohttp", "aiohttp">>, <<"streamlit", "Streamlit">>, <<"pandas", "Pandas">>,
       <<"numpy", "NumPy">>, <<"tensorflow", "TensorFlow">>, <<"pytorch", "PyTorch">>,
       <<"torch", "PyTorch">>, <<"pytest", "pytest">>, <<"unittest", "unittest">> >>

\* re.split(r'[><=!]', line)[0].strip()
package_name_of(line) ==
    Strip(SubSeq(line, 1, SkipWhile(line, 1, {x \in Range(line) :
                                                 x \notin {">", "<", "=", "!"}}) - 1))

analyze_requirements_txt(file_path) ==
    LET f == ReadText(file_path)
        lines == TextLines(f.text)
        OfLine(raw) ==
            LET line == LowerSeq(Strip(raw))
                InName(framework_key) == Contains(package_name_of(line), <<framework_key>>)
            IN IF line # <<>> /\ line[1] # "#"
               THEN Mapped(requirements_mapping, InName) ELSE {}
    IN IF ~f.ok THEN {} ELSE UNION {OfLine(lines[i]) : i \in 1..Len(lines)}

pyproject_mapping ==
    << <<"django", "Django">>, <<"flask", "Flask">>, <<"fastapi", "FastAPI">>,
       <<"poetry", "Poetry">> >>

analyze_pyproject_toml(file_path) ==
    LET f == ReadText(file_path)
        InContent(framework_key) == Contains(LowerSeq(f.text), <<framework_key>>)
    IN IF ~f.ok THEN {} ELSE Mapped(pyproject_mapping, InContent)

pom_mapping ==
    << << <<"spring", "-", "boot">>, "Spring Boot">>,
       << <<"spring", "-", "core">>, "Spring Framework">>,
       << <<"spring", "-", "web">>, "Spring Web">>,
       << <<"hibernate">>, "Hibernate">>,
       << <<"junit">>, "JUnit">>,
       << <<"mockito">>, "Mockito">> >>

\* dependency.find('artifactId') or dependency.find('.//{ns}artifactId'): an
\* element without children is false, so the left operand never survives the
\* "or"; only an artifactId in the POM namespace is looked at.
analyze_pom_xml(file_path) ==
    LET f == ReadDoc(file_path)
        OfArtifact(artifact_name) ==
            LET InArtifact(framework_key) == Contains(LowerSeq(artifact_name), framework_key)
            IN Mapped(pom_mapping, InArtifact)
        ids == f.doc.artifact_ids
        \* artifact_id.text.lower() raises on a text of None; the bare except
        \* ends the loop and what was added before stays in the set.
        raised == {i \in 1..Len(ids) : ids[i] = NoneText}
        last == IF raised = {} THEN Len(ids) ELSE FirstOf(raised) - 1
    IN IF ~f.ok \/ ~f.doc.namespaced THEN {}
       ELSE UNION {OfArtifact(ids[i]) : i \in 1..last}

gradle_mapping ==
    << << <<"spring", "-", "boot">>, "Spring Boot">>,
       << <<"spring">>, "Spring Framework">>,
       << <<"hibernate">>, "Hibernate">>,
       << <<"junit">>, "JUnit">>,
       << <<"kotlin">>, "Kotlin">> >>

analyze_gradle(file_path) ==
    LET f == ReadText(file_path)
        InContent(framework_key) == Contains(LowerSeq(f.text), framework_key)
    IN IF ~f.ok THEN {} ELSE Mapped(gradle_mapping, InContent)

go_mod_mapping ==
    << << <<"gin", "-", "go", "nic", "/", "gin">>, "Gin">>,
       << <<"go", "rilla", "/", "mux">>, "Gorilla Mux">>,
       << <<"labstack", "/", "echo">>, "Echo">>,
       << <<"fiber">>, "Fiber">>,
       << <<"go", "rm", ".", "io", "/", "go", "rm">>, "GORM">>,
       << <<"go", "-", "chi", "/", "chi">>, "Chi">> >>

analyze_go_mod(file_path) ==
    LET f == ReadText(file_path)
        InContent(framework_key) == Contains(f.text, framework_key)
    IN IF ~f.ok THEN {} ELSE Mapped(go_mod_mapping, InContent)

analyze_by_file_structure(files) ==
    LET file_paths == {files[k].path_tokens : k \in {j \in 1..Len(files) :
                                                      files[j].type = "file"}}
        AnyHas(key) == \E path \in file_paths : Contains(path, key)
    IN (IF AnyHas(<<".", "jsx">>) \/ AnyHas(<<".", "tsx">>) THEN {"React"} ELSE {})
       \cup (IF AnyHas(<<".", "vue">>) THEN {"Vue.js"} ELSE {})
       \cup (IF AnyHas(<<"manage", ".", "py">>) \/ AnyHas(<<"settings", ".", "py">>)
             THEN {"Django"} ELSE {})

detect_frameworks(files, dir, primary_language) ==
    LET Hint(filename) == IF find_file(files, filename) # "" /\ dir # ""
                          THEN find_file(files, filename) ELSE ""
        From(filename, Analyzer(_)) ==
            IF Hint(filename) # "" THEN Analyzer(Hint(filename)) ELSE {}
        by_manifest ==
            IF primary_language \in {"JavaScript", "TypeScript"}
            THEN From("package.json", analyze_package_json)
            ELSE IF primary_language = "Python"
            THEN From("requirements.txt", analyze_requirements_txt)
                 \cup From("pyproject.toml", analyze_pyproject_toml)
            ELSE IF primary_language \in {"Java", "Kotlin"}
            THEN From("pom.xml", analyze_pom_xml) \cup From("build.gradle", analyze_gradle)
            ELSE IF primary_language = "Go"
            THEN From("go.mod", analyze_go_mod)
            ELSE {}
    IN SortedBy(by_manifest \cup analyze_by_file_structure(files), FrameworkOrder)

file_mapping ==
    << <<"package.json", "npm">>, <<"yarn.lock", "yarn">>, <<"pnpm-lock.yaml", "pnpm">>,
       <<"requirements.txt", "pip">>, <<"pyproject.toml", "poetry">>,
       <<"Pipfile", "pipenv">>, <<"pom.xml", "maven">>, <<"build.gradle", "gradle">>,
       <<"build.gradle.kts", "gradle">>, <<"Cargo.toml", "cargo">>, <<"go.mod", "go">>,
       <<"Makefile", "make">>, <<"webpack.config.js", "webpack">>,
       <<"vite.config.js", "vite">>, <<"vite.config.ts", "vite">> >>

detect_build_tools(files) ==
    LET Present(name) == \E k \in 1..Len(files) :
                            files[k].type = "file" /\ files[k].name = name
    IN SortedBy(Mapped(file_mapping, Present), BuildToolOrder)

detect_package_managers(build_tools) == build_tools

\* re.match(pattern, name, re.IGNORECASE) for the eleven test_patterns, on the
\* lower-cased tokens of the name.
MatchesTestPattern(name_tokens) ==
    LET n == LowerSeq(name_tokens)
        Tail2(ext) == <<".", ext>>
    IN \/ StartsWith(n, <<"test">>) /\ Len(n) >= 3 /\ EndsWith(n, Tail2("py"))
       \/ EndsWith(n, <<"_", "test", ".", "py">>)
       \/ EndsWith(n, <<".", "test", ".", "js">>)
       \/ EndsWith(n, <<".", "spec", ".", "js">>)
       \/ EndsWith(n, <<".", "test", ".", "ts">>)
       \/ EndsWith(n, <<".", "spec", ".", "ts">>)
       \/ EndsWith(n, <<"test", ".", "java">>)
       \/ EndsWith(n, <<"_", "test", ".", "go">>)
       \/ StartsWith(n, <<"test", "_">>) /\ Len(n) >= 4 /\ EndsWith(n, Tail2("py"))
       \/ EndsWith(n, <<".", "test", ".", "jsx">>)
       \/ EndsWith(n, <<".", "spec", ".", "tsx">>)

test_directories ==
    << <<"test">>, <<"test", "s">>, <<"__", "test", "s", "__">>, <<"spec">>,
       <<"spec", "s">> >>

check_tests(files) ==
    \E k \in 1..Len(files) :
        \/ MatchesTestPattern(files[k].name_tokens)
        \/ \E d \in 1..Len(test_directories) :
              \/ Contains(files[k].path_tokens, <<"/">> \o test_directories[d] \o <<"/">>)
              \/ StartsWith(files[k].path_tokens, <<"/">> \o test_directories[d])

dockerfile_names == {"Dockerfile", "dockerfile", "Dockerfile.prod", "Dockerfile.dev"}

\* The check with an all-lower-case name list.
check_dockerfile_lower_case_only(files) ==
    \E k \in 1..Len(files) : files[k].type = "file" /\ files[k].name = "dockerfile"

check_dockerfile(files) ==
    \E k \in 1..Len(files) : files[k].type = "file" /\ files[k].name \in dockerfile_names

\* detect_tech_stack; up resolves the rounding ties of the percentages.
detect_tech_stack(files, dir, up) ==
    LET stats == count_lines_by_language(files, dir, up)
        primary_language == detect_primary_language(stats)
        build_tools == detect_build_tools(files)
    IN [primary_language |-> primary_language,
        language_stats |-> stats,
        version_info |-> detect_versions(files, dir, primary_language),
        frameworks |-> detect_frameworks(files, dir, primary_language),
        build_tools |-> build_tools,
        package_managers |-> detect_package_managers(build_tools),
        has_tests |-> check_tests(files),
        has_dockerfile |-> check_dockerfile(files)]

(***************************************************************************)
(* Synthesis step (self_deploy.py, run_analysis step 3)                    *)
(***************************************************************************)

GeneratorIds == {1, 2}

\* A generator that consumes its SonarQube flag on first use.
generate_gitlab_pipeline_consuming_flag(g) ==
    LET analysis_result == [tech_stack |-> tech_stack, repository |-> repository]
        out == generate_gitlab_pipeline_doc(generators[g], analysis_result)
    IN /\ pipeline' = out
       /\ calls' = calls \cup {[generator |-> g, input |-> analysis_result, output |-> out]}
       /\ generators' = [generators EXCEPT ![g].sonarqube_enabled = FALSE]

\* generate_gitlab_pipeline on instance g with the current analysis result.
\* The method assigns no field of self.  calls records the call.
generate_gitlab_pipeline(g) ==
    LET analysis_result == [tech_stack |-> tech_stack, repository |-> repository]
        out == generate_gitlab_pipeline_doc(generators[g], analysis_result)
    IN /\ pipeline' = out
       /\ calls' = calls \cup {[generator |-> g, input |-> analysis_result, output |-> out]}
       /\ UNCHANGED generators

Generate ==
    /\ pc = "analyzed"
    /\ \E g \in GeneratorIds : generate_gitlab_pipeline(g)
    /\ pc' = "generated"
    /\ UNCHANGED <<file_structure, project_dir, disk, language_stats, tech_stack,
                   confidence, repository,
                   cleanups, console, git_available>>

\* Synthesis from any profile.
InitGen ==
    /\ pc = "analyzed"
    /\ file_structure = <<>>
    /\ project_dir = ""
    /\ disk = <<>>
    /\ language_stats = <<>>
    /\ tech_stack \in Profiles
    /\ confidence = NoConfidence
    /\ repository \in {[name |-> n] : n \in RepoNames}
    /\ generators = [g \in GeneratorIds |-> NewGenerator]
    /\ pipeline = NoPipeline
    /\ calls = {}
    /\ cleanups = 0
    /\ console = NoInput
    /\ git_available = TRUE

NextGen == Generate

SpecGen == InitGen /\ [][NextGen]_vars

(***************************************************************************)
(* Reading a synthesized pipeline                                          *)
(***************************************************************************)
Generated == pc = "generated"

JobNames(doc) == [i \in 1..Len(doc.jobs) |-> doc.jobs[i].name]

JobsOfStage(doc, stage) == {doc.jobs[i] : i \in {j \in 1..Len(doc.jobs) : doc.jobs[j].stage = stage}}

JobNamed(doc, name) == doc.jobs[IndexOf(JobNames(doc), name)]

Count(s, x) == Cardinality({i \in 1..Len(s) : s[i] = x})

(***************************************************************************)
(* C1: every synthesized pipeline's stage list is build, test, quality,    *)
(* package, then deploy-staging, deploy-production; with a container       *)
(* descriptor exactly one docker-build stage sits immediately before       *)
(* deploy-staging, without one docker-build is absent; the stage lists of  *)
(* two profiles that differ only in the container flag differ in length by *)
(* exactly one.                                                            *)
(***************************************************************************)
C1_StageList ==
    Generated =>
        LET st == pipeline.stages
            n == Len(st)
            other == generate_gitlab_pipeline_doc(generators[1],
                        [tech_stack |-> FlipDocker(tech_stack), repository |-> repository]).stages
        IN /\ SubSeq(st, 1, 4) = <<"build", "test", "quality", "package">>
           /\ SubSeq(st, n - 1, n) = <<"deploy-staging", "deploy-production">>
           /\ tech_stack.has_dockerfile =>
                /\ Count(st, "docker-build") = 1
                /\ n = 7
                /\ IndexOf(st, "docker-build") + 1 = IndexOf(st, "deploy-staging")
           /\ ~tech_stack.has_dockerfile =>
                /\ Count(st, "docker-build") = 0
                /\ n = 6
           /\ Abs(Len(other) - n) = 1

C1_Witness ==
    /\ Generated
    /\ tech_stack.has_dockerfile
    /\ tech_stack.primary_language = "Python"
    /\ "docker-build" \in Range(pipeline.stages)

(***************************************************************************)
(* C6: in every synthesized pipeline, whatever the primary language, build *)
(* tools, frameworks and flags, every job of the quality stage             *)
(* (code-quality, and sonarqube-check when enabled) has allow_failure true.*)
(***************************************************************************)
C6_QualityNeverBlocks ==
    Generated =>
        /\ \A j \in JobsOfStage(pipeline, "quality") : j.allow_failure
        /\ "code-quality" \in Range(JobNames(pipeline))
        /\ JobNamed(pipeline, "code-quality").stage = "quality"

C6_Witness ==
    /\ Generated
    /\ tech_stack.primary_language = "Kotlin"
    /\ {j.name : j \in JobsOfStage(pipeline, "quality")} = {"code-quality", "sonarqube-check"}

(***************************************************************************)
(* Repeated synthesis: the interactive loop calls run_analysis again       *)
(***************************************************************************)

TwiceProfiles ==
    {MakeProfile("JavaScript", "", {"React"}, {"npm"}, TRUE, TRUE),
     MakeProfile("Python", "3.9", {"Django"}, {}, TRUE, FALSE),
     MakeProfile("Java", "11", {}, {"maven"}, FALSE, FALSE)}

\* The next iteration of run_interactive's loop: a new analysis result reaches
\* the same generator objects.
NewRun ==
    /\ pc = "generated"
    /\ tech_stack' \in TwiceProfiles
    /\ repository' \in {[name |-> n] : n \in RepoNames}
    /\ pipeline' = NoPipeline
    /\ pc' = "analyzed"
    /\ UNCHANGED <<file_structure, project_dir, disk, language_stats, confidence,
                   generators, calls,
                   cleanups, console, git_available>>

InitTwice ==
    /\ pc = "analyzed"
    /\ file_structure = <<>>
    /\ project_dir = ""
    /\ disk = <<>>
    /\ language_stats = <<>>
    /\ tech_stack \in TwiceProfiles
    /\ confidence = NoConfidence
    /\ repository \in {[name |-> n] : n \in RepoNames}
    /\ generators = [g \in GeneratorIds |-> NewGenerator]
    /\ pipeline = NoPipeline
    /\ calls = {}
    /\ cleanups = 0
    /\ console = NoInput
    /\ git_available = TRUE

NextTwice == Generate \/ NewRun

SpecTwice == InitTwice /\ [][NextTwice]_vars

(***************************************************************************)
(* C2: synthesis is deterministic and stateless: any two calls of          *)
(* generate_gitlab_pipeline, on the same or on different generator         *)
(* instances and with any other calls made before or between them, that    *)
(* receive the same profile and repository name return the same document   *)
(* (stages, jobs in order, script lines).                                  *)
(***************************************************************************)
C2_Deterministic ==
    \A a \in calls : \A b \in calls : a.input = b.input => a.output = b.output

C2_Witness ==
    \E a \in calls : \E b \in calls : \E c \in calls :
        /\ a.input = b.input
        /\ a.generator # b.generator
        /\ c.input # a.input
        /\ c.generator = a.generator
        /\ Len(a.output.jobs) > 0

(***************************************************************************)
(* RepositoryAnalyzer._calculate_confidence                                *)
(***************************************************************************)

config_files ==
    <<"package.json", "requirements.txt", "pom.xml", "build.gradle",
      "Cargo.toml", "go.mod", "pyproject.toml">>

\* The score with the break after the first manifest hit left out: every
\* manifest present adds 0.15.
calculate_confidence_no_break(ts, files) ==
    LET hits == Cardinality({i \in 1..Len(config_files) :
                    \E k \in 1..Len(files) : files[k].name = config_files[i]})
    IN Min(40 + 15 * hits
              + (IF ts.build_tools # <<>> THEN 10 ELSE 0)
              + (IF ts.has_tests THEN 10 ELSE 0)
              + (IF ts.frameworks # <<>> THEN 10 ELSE 0)
              + (IF ts.primary_language # "" /\ ts.primary_language # "Unknown" THEN 15 ELSE 0),
           100)

\* The score in hundredths.
calculate_confidence(ts, files) ==
    LET base == 40
        config == IF \E i \in 1..Len(config_files) :
                        \E k \in 1..Len(files) : files[k].name = config_files[i]
                  THEN 15 ELSE 0       \* += 0.15 once, then break
        tools == IF ts.build_tools # <<>> THEN 10 ELSE 0
        tests == IF ts.has_tests THEN 10 ELSE 0
        fws == IF ts.frameworks # <<>> THEN 10 ELSE 0
        lang == IF ts.primary_language # "" /\ ts.primary_language # "Unknown"
                THEN 15 ELSE 0
    IN Min(base + config + tools + tests + fws + lang, 100)

\* The scoring step of analyze_repository.
CalculateConfidence ==
    /\ pc = "detected"
    /\ confidence' = calculate_confidence(tech_stack, file_structure)
    /\ pc' = "analyzed"
    /\ UNCHANGED <<file_structure, project_dir, disk, language_stats, tech_stack,
                   repository, generators, pipeline, calls,
                   cleanups, console, git_available>>

\* Scoring any profile against any short file list.
MaxConfFiles == 2

ConfCatalog ==
    {File(<<>>, <<"README", ".", "md">>),
     File(<<>>, <<"go", ".", "mod">>),
     File(<<>>, <<"package", ".", "json">>),
     File(<<"/", "sub">>, <<"pom", ".", "xml">>),
     File(<<>>, <<"Cargo", ".", "toml">>),
     Directory(<<>>, <<"tests">>)}

ConfFileLists ==
    UNION {[1..n -> ConfCatalog] : n \in 0..MaxConfFiles}

ConfProfiles ==
    {MakeProfile(lang, "", fws, tools, tests, FALSE) :
        lang \in {"Go", "Rust", "Unknown"},
        fws \in SubsetsUpTo({"React", "Gin"}, MaxFrameworks),
        tools \in SubsetsUpTo({"npm", "go"}, MaxTools),
        tests \in BOOLEAN}

InitConf ==
    /\ pc = "detected"
    /\ file_structure \in ConfFileLists
    /\ project_dir = CloneDir
    /\ disk = <<>>
    /\ language_stats = <<>>
    /\ tech_stack \in ConfProfiles
    /\ confidence = NoConfidence
    /\ repository = [name |-> "Repo"]
    /\ generators = [g \in GeneratorIds |-> NewGenerator]
    /\ pipeline = NoPipeline
    /\ calls = {}
    /\ cleanups = 0
    /\ console = NoInput
    /\ git_available = TRUE

NextConf == CalculateConfidence

SpecConf == InitConf /\ [][NextConf]_vars

FileNames(files) == {files[k].name : k \in 1..Len(files)}

Ind(b) == IF b THEN 1 ELSE 0

(***************************************************************************)
(* C3: for every profile and file list the confidence score equals         *)
(* min(1.0, 0.4 + 0.15*[a known manifest file name is present]             *)
(*               + 0.1*[build_tools non-empty] + 0.1*[has_tests]           *)
(*               + 0.1*[frameworks non-empty]                              *)
(*               + 0.15*[primary_language is not Unknown]),                *)
(* and so lies in [0.4, 1.0] (hence in [0.0, 1.0]).  Hundredths.           *)
(***************************************************************************)
C3_ConfidenceFormula ==
    pc = "analyzed" /\ confidence # NoConfidence =>
        LET manifest == FileNames(file_structure) \cap
                            {"package.json", "requirements.txt", "pom.xml", "build.gradle",
                             "Cargo.toml", "go.mod", "pyproject.toml"} # {}
            sum == 40 + 15 * Ind(manifest)
                      + 10 * Ind(Len(tech_stack.build_tools) > 0)
                      + 10 * Ind(tech_stack.has_tests)
                      + 10 * Ind(Len(tech_stack.frameworks) > 0)
                      + 15 * Ind(tech_stack.primary_language # "Unknown")
        IN /\ confidence = (IF sum > 100 THEN 100 ELSE sum)
           /\ confidence >= 40
           /\ confidence <= 100

C3_Witness ==
    /\ pc = "analyzed"
    /\ confidence = 100
    /\ Cardinality(FileNames(file_structure) \cap {"go.mod", "pom.xml"}) = 2

(***************************************************************************)
(* Primary-language selection over a statistics map                        *)
(***************************************************************************)

\* _detect_primary_language applied to the statistics at hand.
DetectPrimaryLanguage ==
    /\ pc = "counted"
    /\ tech_stack' = [primary_language |-> detect_primary_language(language_stats)]
    /\ pc' = "primary"
    /\ UNCHANGED <<file_structure, project_dir, disk, language_stats, confidence,
                   repository, generators, pipeline, calls,
                   cleanups, console, git_available>>

\* Statistics maps over language names the extension table does not produce
\* (the excluded pseudo-languages) as well as ones it does.
MaxStatLanguages == 3
StatLanguages == {"Go", "Python", "Markdown", "JSON"}
StatLineCounts == {10, 500}

\* Sequences of at most n entries over distinct languages: the insertion orders.
LanguageLineMaps(n) ==
    {m \in UNION {[1..k -> [language : StatLanguages, lines : StatLineCounts]] : k \in 0..n} :
        \A i \in 1..Len(m) : \A j \in 1..Len(m) : i # j => m[i].language # m[j].language}

InitPrimary ==
    /\ pc = "counted"
    /\ file_structure = <<>>
    /\ project_dir = ""
    /\ disk = <<>>
    /\ \E m \in LanguageLineMaps(MaxStatLanguages) :
         \E up \in SUBSET TieLines(m) : language_stats = language_stats_of(m, up)
    /\ tech_stack = NoStack
    /\ confidence = NoConfidence
    /\ repository = [name |-> "Repo"]
    /\ generators = [g \in GeneratorIds |-> NewGenerator]
    /\ pipeline = NoPipeline
    /\ calls = {}
    /\ cleanups = 0
    /\ console = NoInput
    /\ git_available = TRUE

NextPrimary == DetectPrimaryLanguage

SpecPrimary == InitPrimary /\ [][NextPrimary]_vars

StatLanguagesOf(stats) == {stats[i].language : i \in 1..Len(stats)}

LinesOf(stats, language) ==
    stats[CHOOSE i \in 1..Len(stats) : stats[i].language = language].lines

MaxLinesAmong(stats, langs) ==
    CHOOSE n \in {LinesOf(stats, l) : l \in langs} :
        \A l \in langs : LinesOf(stats, l) <= n

(***************************************************************************)
(* C4: over any statistics map the primary language is a language with the *)
(* highest line count among those outside {JSON, YAML, XML, Markdown,      *)
(* HTML, CSS}; when every present language is excluded it is the most      *)
(* voluminous one; for the empty map it is "Unknown".  {Markdown: 500,     *)
(* Go: 10} resolves to Go.                                                 *)
(***************************************************************************)
C4_PrimaryLanguage ==
    pc = "primary" =>
        LET present == StatLanguagesOf(language_stats)
            eligible == present \ {"JSON", "YAML", "XML", "Markdown", "HTML", "CSS"}
            result == tech_stack.primary_language
        IN /\ present = {} => result = "Unknown"
           /\ eligible # {} =>
                /\ result \in eligible
                /\ LinesOf(language_stats, result) = MaxLinesAmong(language_stats, eligible)
           /\ present # {} /\ eligible = {} =>
                /\ result \in present
                /\ LinesOf(language_stats, result) = MaxLinesAmong(language_stats, present)
           /\ (present = {"Markdown", "Go"}
               /\ LinesOf(language_stats, "Markdown") = 500
               /\ LinesOf(language_stats, "Go") = 10) => result = "Go"

C4_Witness ==
    /\ pc = "primary"
    /\ StatLanguagesOf(language_stats) = {"Markdown", "Go"}
    /\ LinesOf(language_stats, "Markdown") = 500
    /\ LinesOf(language_stats, "Go") = 10
    /\ language_stats[1].language = "Markdown"
    /\ tech_stack.primary_language = "Go"

(***************************************************************************)
(* Line counting over a scanned tree                                       *)
(***************************************************************************)

\* _count_lines_by_language over the scanned files.  Whether an exact tie of
\* the binary rounding goes up or down depends on the floating-point quotient;
\* either direction is taken, the same one for equal line counts.
CountLines ==
    /\ pc = "scanned"
    /\ \E up \in SUBSET TieLines(language_lines_upto(file_structure, project_dir,
                                                      Len(file_structure))) :
         language_stats' = count_lines_by_language(file_structure, project_dir, up)
    /\ pc' = "counted"
    /\ UNCHANGED <<file_structure, project_dir, disk, tech_stack, confidence,
                   repository, generators, pipeline, calls,
                   cleanups, console, git_available>>

\* One extension for each language of the extension table, in table order.
LanguageExtensions ==
    <<"js", "ts", "py", "java", "kt", "go", "rs", "cpp", "c", "h",
      "cs", "php", "rb", "swift", "scala", "dart">>

MaxUniformLines == 2
MaxMixedLines == 4

SourceFile(stem, ext) == File(<<>>, <<stem, ".", ext>>)

\* k files of k different languages.
UniformFiles(k) == [i \in 1..k |-> SourceFile("f", LanguageExtensions[i])]

\* Two JavaScript files, a Python, a Go and an unrecognized one.
MixedFiles ==
    <<SourceFile("a", "js"), SourceFile("b", "jsx"), SourceFile("c", "py"),
      SourceFile("d", "go"), SourceFile("e", "md")>>

\* The tree with files[i] holding n[i] lines of code.
DiskOf(files, n) ==
    [p \in {files[i].full_path : i \in 1..Len(files)} |->
        LET i == CHOOSE k \in 1..Len(files) : files[k].full_path = p
        IN OnDisk(2 * n[i] + 2, SourceText(n[i]), NoDoc)]

CountScenarios ==
    {[files |-> UniformFiles(k), disk |-> DiskOf(UniformFiles(k), [i \in 1..k |-> c])] :
        k \in 1..Len(LanguageExtensions), c \in 1..MaxUniformLines}
    \cup
    {[files |-> MixedFiles, disk |-> DiskOf(MixedFiles, n)] :
        n \in [1..Len(MixedFiles) -> 0..MaxMixedLines]}

InitCount ==
    /\ pc = "scanned"
    /\ \E sc \in CountScenarios : file_structure = sc.files /\ disk = sc.disk
    /\ project_dir = CloneDir
    /\ language_stats = <<>>
    /\ tech_stack = NoStack
    /\ confidence = NoConfidence
    /\ repository = [name |-> "Repo"]
    /\ generators = [g \in GeneratorIds |-> NewGenerator]
    /\ pipeline = NoPipeline
    /\ calls = {}
    /\ cleanups = 0
    /\ console = NoInput
    /\ git_available = TRUE

NextCount == CountLines \/ DetectPrimaryLanguage

SpecCount == InitCount /\ [][NextCount]_vars

Counted == pc \in {"counted", "primary"}

TotalLines(stats) == SumSeq([i \in 1..Len(stats) |-> stats[i].lines])

PercentageSum(stats) == SumSeq([i \in 1..Len(stats) |-> stats[i].percentage])

\* Every percentage (tenths of a percent) is lines/total*100 rounded to one decimal.
RoundedShares(stats) ==
    \A i \in 1..Len(stats) :
        2 * Abs(stats[i].percentage * TotalLines(stats) - 1000 * stats[i].lines)
            <= TotalLines(stats)

(***************************************************************************)
(* C5 as stated: in every non-empty statistics map each percentage is      *)
(* lines/total*100 rounded to one decimal and the percentages sum to       *)
(* within 0.5 of 100.0, whatever the number of recognized languages.       *)
(***************************************************************************)
C5_SumWithinHalf ==
    Counted /\ language_stats # <<>> =>
        /\ RoundedShares(language_stats)
        /\ Abs(PercentageSum(language_stats) - 1000) <= 5

(***************************************************************************)
(* C5 amended: in every non-empty statistics map each percentage is        *)
(* lines/total*100 rounded to one decimal and the percentages sum to       *)
(* within 0.05*n of 100.0, n the number of languages in the map (so        *)
(* within 0.5 for up to ten languages, within 0.8 for all sixteen).        *)
(***************************************************************************)
C5_SumWithinRounding ==
    Counted /\ language_stats # <<>> =>
        /\ RoundedShares(language_stats)
        /\ 2 * Abs(PercentageSum(language_stats) - 1000) <= Len(language_stats)
        /\ Len(language_stats) <= 10 => Abs(PercentageSum(language_stats) - 1000) <= 5

C5_Witness ==
    /\ pc = "counted"
    /\ Len(language_stats) = 14
    /\ PercentageSum(language_stats) = 994

(***************************************************************************)
(* End to end: a cloned tree is analysed, then the pipeline is synthesized *)
(***************************************************************************)

\* analyze_repository once the tree is scanned: detect_tech_stack on the file
\* list and the clone directory, then _calculate_confidence.  project_dir = ""
\* is detect_tech_stack called without a project root.
AnalyzeRepository ==
    /\ pc = "scanned"
    /\ \E up \in SUBSET TieLines(language_lines_upto(file_structure, project_dir,
                                                      Len(file_structure))) :
         LET ts == detect_tech_stack(file_structure, project_dir, up)
         IN /\ tech_stack' = ts
            /\ language_stats' = ts.language_stats
            /\ confidence' = calculate_confidence(ts, file_structure)
    /\ pc' = "analyzed"
    /\ UNCHANGED <<file_structure, project_dir, disk, repository, generators,
                   pipeline, calls,
                   cleanups, console, git_available>>

\* A file of the tree with what the disk holds for it.
Entry(file, text, doc) ==
    [file |-> file, stat |-> OnDisk(Len(text) + 1, text, doc)]

Plain(file, text) == Entry(file, text, NoDoc)

Parsed(file, doc) == Entry(file, <<"{", "}">>, doc)

Digits09 == <<"0", "1", "2", "3", "4", "5", "6", "7", "8", "9">>

\* The source files of a tree, by kind.
SourceGroups ==
    {<<>>,
     <<Plain(File(<<>>, <<"app", ".", "go">>), SourceText(50))>>,
     <<Plain(File(<<>>, <<"index", ".", "js">>), SourceText(3))>>,
     [i \in 1..10 |-> Plain(File(<<"/", "src">>, <<"c", Digits09[i], ".", "jsx">>),
                            SourceText(1))],
     <<Plain(File(<<>>, <<"main", ".", "py">>), SourceText(2))>>,
     <<Plain(File(<<>>, <<"Main", ".", "java">>), SourceText(2))>>,
     <<Plain(File(<<>>, <<"Main", ".", "kt">>), SourceText(2))>>,
     <<Plain(File(<<>>, <<"index", ".", "ts">>), SourceText(2))>>,
     <<Plain(File(<<>>, <<"main", ".", "rs">>), SourceText(2))>>}

GoModTexts ==
    {<<"module", " ", "m", "\n", "\n", "go", " ", "1", ".", "21", "\n">>,
     <<"module", " ", "m", "\n", "\n", "go", " ", "1", ".", "21", ".", "3", "\n">>,
     <<"module", " ", "m", "\n">>,
     <<>>,
     <<"module", " ", "m", "\n", "/", "/", " ", "tested", " ", "with", " ",
       "djan", "go", " ", "4", ".", "2", "\n">>,
     <<"module", " ", "m", "\n", "go", " ", "1", ".", "21", "\n", "require", " ",
       "github", ".", "com", "/", "gin", "-", "go", "nic", "/", "gin", " ",
       "v", "1", ".", "9", ".", "1", "\n">>,
     <<"module", " ", "m", "\n", "toolchain", " ", "go", "1", ".", "21", "\n">>}

PackageJsonDocs ==
    {[NoDoc EXCEPT !.valid = TRUE, !.dependencies = {"react", "react-dom"}],
     [NoDoc EXCEPT !.valid = TRUE, !.has_node = TRUE,
                   !.node = <<">", "=", "18", ".", "0", ".", "0">>,
                   !.dependencies = {"express"}, !.devDependencies = {"jest"}],
     [NoDoc EXCEPT !.valid = TRUE, !.has_node = TRUE, !.node = <<"lts", "/", "*">>],
     NoDoc}

PomDocs ==
    {[NoDoc EXCEPT !.valid = TRUE, !.namespaced = TRUE,
                   !.properties = <<[tag |-> <<"{http://maven.apache.org/POM/4.0.0}",
                                               "java", ".", "version">>,
                                     text |-> "17"]>>,
                   !.artifact_ids = << <<"spring", "-", "boot", "-", "starter">> >>],
     [NoDoc EXCEPT !.valid = TRUE,
                   !.properties = <<[tag |-> <<"maven", ".", "compiler", ".", "source">>,
                                     text |-> "1.8"]>>,
                   !.artifact_ids = << <<"junit">> >>],
     [NoDoc EXCEPT !.valid = TRUE, !.namespaced = TRUE,
                   !.artifact_ids = << <<"spring", "-", "boot", "-", "starter">>,
                                       NoneText,
                                       <<"hibernate", "-", "core">> >>],
     NoDoc}

GradleTexts ==
    {<<"sourceCompatibility", " ", "=", " ", "'", "17", "'", "\n",
       "implementation", " ", "'", "org", ".", "spring", "framework", ".", "boot", ":",
       "spring", "-", "boot", "'", "\n">>,
     <<"java", " ", "{", " ", "sourceCompatibility", " ", "=", " ",
       "JavaVersion", ".", "VERSION_", "11", " ", "}", "\n">>,
     <<"plugins", " ", "{", "}", "\n">>}

PyprojectTexts ==
    {<<"[", "project", "]", "\n", "requires-python", " ", "=", " ",
       "\"", ">", "=", "3", ".", "11", "\"", "\n">>,
     <<"[", "tool", ".", "poetry", "]", "\n", "dependencies", " ", "=", " ",
       "[", "\"", "Django", "\"", "]", "\n">>}

RequirementsTexts ==
    {<<"Django", "=", "=", "4", ".", "2", "\n", "#", " ", "flask", "\n",
       "pytest", ">", "=", "7", "\n">>,
     <<>>}

\* The manifests a tree may hold, each with a content.
ManifestEntries ==
    {Plain(File(<<>>, <<"go", ".", "mod">>), t) : t \in GoModTexts}
    \cup {Parsed(File(<<>>, <<"package", ".", "json">>), d) : d \in PackageJsonDocs}
    \cup {Parsed(File(<<>>, <<"pom", ".", "xml">>), d) : d \in PomDocs}
    \cup {Plain(File(<<>>, <<"build", ".", "gradle">>), t) : t \in GradleTexts}
    \cup {Plain(File(<<>>, <<"pyproject", ".", "toml">>), t) : t \in PyprojectTexts}
    \cup {Plain(File(<<>>, <<"requirements", ".", "txt">>), t) : t \in RequirementsTexts}
    \cup {Plain(File(<<>>, <<"Cargo", ".", "toml">>), <<"[", "package", "]", "\n">>)}

MaxManifests == 2

ManifestSets ==
    {M \in SubsetsUpTo(ManifestEntries, MaxManifests) :
        \A a \in M : \A b \in M : a.file.name = b.file.name => a = b}

RECURSIVE SetToSeq(_)
SetToSeq(S) ==
    IF S = {} THEN <<>>
    ELSE LET x == CHOOSE y \in S : TRUE IN <<x>> \o SetToSeq(S \ {x})

DockerfileEntry ==
    Plain(File(<<>>, <<"Dockerfile">>), <<"FROM", " ", "alpine", "\n">>)

TestsDirectory == [file |-> Directory(<<>>, <<"test", "s">>), stat |-> Missing]

\* The trees: sources, then manifests, then the optional extras.
Trees ==
    {src \o SetToSeq(M)
         \o (IF docker THEN <<DockerfileEntry>> ELSE <<>>)
         \o (IF tests THEN <<TestsDirectory>> ELSE <<>>) :
        src \in SourceGroups, M \in ManifestSets, docker \in BOOLEAN, tests \in BOOLEAN}

FilesOf(tree) == [i \in 1..Len(tree) |-> tree[i].file]

DiskOfTree(tree) ==
    LET on == {i \in 1..Len(tree) : tree[i].stat.exists}
    IN [p \in {tree[i].file.full_path : i \in on} |->
           tree[CHOOSE i \in on : tree[i].file.full_path = p].stat]

Init ==
    /\ pc = "scanned"
    /\ \E tree \in Trees : file_structure = FilesOf(tree) /\ disk = DiskOfTree(tree)
    /\ project_dir \in {"", CloneDir}
    /\ language_stats = <<>>
    /\ tech_stack = NoStack
    /\ confidence = NoConfidence
    /\ repository = [name |-> "Repo"]
    /\ generators = [g \in GeneratorIds |-> NewGenerator]
    /\ pipeline = NoPipeline
    /\ calls = {}
    /\ cleanups = 0
    /\ console = NoInput
    /\ git_available = TRUE

Next == AnalyzeRepository \/ Generate

Spec == Init /\ [][Next]_vars

Analyzed == pc \in {"analyzed", "generated"}

HasFile(name) == \E k \in 1..Len(file_structure) : file_structure[k].name = name

TextOf(name) == Stat(find_file(file_structure, name)).text

ManifestOf(language) ==
    CASE language = "Go" -> {"go.mod"}
      [] language = "Python" -> {"pyproject.toml"}
      [] language = "Java" -> {"pom.xml", "build.gradle"}
      [] language \in {"JavaScript", "TypeScript"} -> {"package.json"}
      [] OTHER -> {}

\* The version of the go directive of a go.mod text: a line that reads
\* go <major>.<minor>[.<patch>]; "" when the text has no such line.
GoDirectiveOf(text) ==
    LET lines == TextLines(text)
        IsDirective(l) ==
            /\ Len(l) \in {5, 7}
            /\ l[1] = "go" /\ l[2] = " "
            /\ \A k \in 3..Len(l) : IF k % 2 = 1 THEN l[k] \in DigitTokens ELSE l[k] = "."
        hits == {i \in 1..Len(lines) : IsDirective(Strip(lines[i]))}
    IN IF hits = {} THEN ""
       ELSE LET l == Strip(lines[FirstOf(hits)]) IN JoinTokens(SubSeq(l, 3, Len(l)))

(***************************************************************************)
(* C7: for a profile whose primary language has a version-bearing          *)
(* manifest, the language version is the static default unless the         *)
(* manifest is present, the project root is given and the manifest carries *)
(* a version; for Go, a go.mod whose go directive reads 1.21.3 gives       *)
(* 1.21.3 and a go.mod that is missing or has no go directive gives 1.19.  *)
(***************************************************************************)
C7_VersionResolution ==
    Analyzed /\ ManifestOf(tech_stack.primary_language) # {} =>
        LET language == tech_stack.primary_language
            version == tech_stack.version_info.language_version
            present == \E m \in ManifestOf(language) : HasFile(m)
        IN /\ ~present \/ project_dir = "" => version = default_versions(language)
           /\ language = "Go" /\ present /\ project_dir # "" =>
                version = (IF GoDirectiveOf(TextOf("go.mod")) # ""
                           THEN GoDirectiveOf(TextOf("go.mod")) ELSE "1.19")

FileNameList == [k \in 1..Len(file_structure) |-> file_structure[k].name]

\* One app.go with 50 significant lines and one go.mod containing go 1.21,
\* the project root given.
C8_Scenario ==
    /\ project_dir = CloneDir
    /\ FileNameList = <<"app.go", "go.mod">>
    /\ CountSignificant(TextOf("app.go")) = 50
    /\ Contains(TextOf("go.mod"), <<"\n", "go", " ", "1", ".", "21", "\n">>)

(***************************************************************************)
(* C8: end to end on one app.go (50 significant lines) and one go.mod      *)
(* containing go 1.21, root given: primary language Go, language version   *)
(* 1.21, build tools {go}, image golang:1.21-alpine, and the six stages    *)
(* build, test, quality, package, deploy-staging, deploy-production, with  *)
(* no docker-build.                                                        *)
(***************************************************************************)
C8_GoEndToEnd ==
    Generated /\ C8_Scenario =>
        /\ tech_stack.primary_language = "Go"
        /\ tech_stack.version_info.language_version = "1.21"
        /\ tech_stack.build_tools = <<"go">>
        /\ pipeline.image = "golang:1.21-alpine"
        /\ pipeline.stages = <<"build", "test", "quality", "package",
                               "deploy-staging", "deploy-production">>

C8_Witness ==
    /\ Generated
    /\ C8_Scenario
    /\ tech_stack.frameworks = <<>>
    /\ pipeline.image = "golang:1.21-alpine"

\* A package.json with dependency react, ten non-empty .jsx files and a
\* Dockerfile, the project root given.
C9_Scenario ==
    /\ project_dir = CloneDir
    /\ Len(file_structure) = 12
    /\ Cardinality({k \in 1..12 : /\ file_structure[k].extension = ".jsx"
                                  /\ CountSignificant(Stat(file_structure[k].full_path).text) > 0})
         = 10
    /\ HasFile("Dockerfile")
    /\ HasFile("package.json")
    /\ LET doc == Stat(find_file(file_structure, "package.json")).doc
       IN doc.valid /\ "react" \in doc.dependencies

(***************************************************************************)
(* C9: end to end on a package.json with dependency react, ten non-empty   *)
(* .jsx files and a Dockerfile, root given: primary language JavaScript,   *)
(* React among the frameworks, the container flag set, docker-build in the *)
(* stage list before both deploy stages, and the build job runs            *)
(* npm run build, not the fallback with || echo "No build script found".   *)
(***************************************************************************)
C9_ReactEndToEnd ==
    Generated /\ C9_Scenario =>
        LET st == pipeline.stages
            build == JobNamed(pipeline, "build")
        IN /\ tech_stack.primary_language = "JavaScript"
           /\ "React" \in Range(tech_stack.frameworks)
           /\ tech_stack.has_dockerfile
           /\ Count(st, "docker-build") = 1
           /\ IndexOf(st, "docker-build") < IndexOf(st, "deploy-staging")
           /\ IndexOf(st, "docker-build") < IndexOf(st, "deploy-production")
           /\ Commands(build.script) = <<"npm run build">>

C9_Witness ==
    /\ Generated
    /\ C9_Scenario
    /\ Len(pipeline.stages) = 7
    /\ Commands(JobNamed(pipeline, "build").script) = <<"npm run build">>

\* The version a manifest of the tree yields for the language ("" when none
\* does): what the parsers return, the later manifest winning.
ManifestVersion(language) ==
    LET Hint(name, Parser(_)) ==
            IF HasFile(name) /\ project_dir # ""
            THEN Parser(find_file(file_structure, name)) ELSE ""
    IN CASE language = "Go" -> Hint("go.mod", extract_go_version)
         [] language = "Python" -> Hint("pyproject.toml", extract_python_version_from_pyproject)
         [] language \in {"JavaScript", "TypeScript"} -> Hint("package.json", extract_node_version)
         [] language = "Java" ->
              IF Hint("build.gradle", extract_java_version_from_gradle) # ""
              THEN Hint("build.gradle", extract_java_version_from_gradle)
              ELSE Hint("pom.xml", extract_java_version_from_pom)
         [] OTHER -> ""

(***************************************************************************)
(* C10: for a profile produced by detect_tech_stack the image is, for a    *)
(* first-class primary language, tagged with the manifest-resolved version *)
(* when one was resolved and is otherwise the fixed default of the         *)
(* ecosystem (node:18-alpine, python:3.9-slim, maven:3.8-openjdk-11,       *)
(* golang:1.19-alpine); any other primary language gets alpine:latest and  *)
(* an empty variables map.                                                 *)
(***************************************************************************)
C10_ImageSelection ==
    Generated =>
        LET language == tech_stack.primary_language
            v == ManifestVersion(language)
        IN IF language \in {"JavaScript", "TypeScript"}
           THEN pipeline.image = (IF v # "" THEN "node:" \o v \o "-alpine"
                                  ELSE "node:18-alpine")
           ELSE IF language = "Python"
           THEN pipeline.image = (IF v # "" THEN "python:" \o v \o "-slim"
                                  ELSE "python:3.9-slim")
           ELSE IF language \in {"Java", "Kotlin"}
           THEN pipeline.image = (IF v # "" THEN "maven:3.8-openjdk-" \o v
                                  ELSE "maven:3.8-openjdk-11")
           ELSE IF language = "Go"
           THEN pipeline.image = (IF v # "" THEN "golang:" \o v \o "-alpine"
                                  ELSE "golang:1.19-alpine")
           ELSE pipeline.image = "alpine:latest" /\ pipeline.variables = <<>>

(***************************************************************************)
(* C11: an empty file list is not an error.  detect_tech_stack returns     *)
(* primary language "Unknown" with empty language statistics, frameworks   *)
(* and build tools and both presence flags false; the confidence is        *)
(* exactly the base 0.4; synthesis from that profile yields the catch-all  *)
(* pipeline: image alpine:latest and the six stages without docker-build.  *)
(***************************************************************************)
C11_EmptyFileList ==
    file_structure = <<>> =>
        /\ Analyzed =>
             /\ tech_stack.primary_language = "Unknown"
             /\ tech_stack.language_stats = <<>>
             /\ tech_stack.frameworks = <<>>
             /\ tech_stack.build_tools = <<>>
             /\ ~tech_stack.has_tests
             /\ ~tech_stack.has_dockerfile
             /\ confidence = 40
        /\ Generated =>
             /\ pipeline.image = "alpine:latest"
             /\ pipeline.stages = <<"build", "test", "quality", "package",
                                    "deploy-staging", "deploy-production">>

C11_Witness ==
    /\ Generated
    /\ file_structure = <<>>
    /\ confidence = 40
    /\ pipeline.image = "alpine:latest"
    /\ Len(pipeline.jobs) > 0

HasJob(doc, name) == \E i \in 1..Len(doc.jobs) : doc.jobs[i].name = name

\* The three reminders the catch-all templates echo.
PlaceholderCommands ==
    {"echo \"Configure the build commands for your project\"",
     "echo \"Configure the test commands\"",
     "echo \"Configure the code quality check\""}

PlaceholderOnly(job) ==
    /\ job.script # <<>>
    /\ \A i \in 1..Len(job.script) : job.script[i].cmd \in PlaceholderCommands

(***************************************************************************)
(* C12: whenever the primary language is "Unknown", whatever the build     *)
(* tools, frameworks and the two presence flags, the pipeline has image    *)
(* alpine:latest, an empty variables map, empty cache paths, an empty      *)
(* before-script, and the build job, the test job (emitted when has_tests) *)
(* and the code-quality job run placeholder echo commands only.            *)
(***************************************************************************)
C12_UnknownIsCatchAll ==
    Generated /\ tech_stack.primary_language = "Unknown" =>
        /\ pipeline.image = "alpine:latest"
        /\ pipeline.variables = <<>>
        /\ pipeline.cache.paths = <<>>
        /\ pipeline.before_script = <<>>
        /\ HasJob(pipeline, "build") /\ PlaceholderOnly(JobNamed(pipeline, "build"))
        /\ HasJob(pipeline, "test") <=> tech_stack.has_tests
        /\ HasJob(pipeline, "test") => PlaceholderOnly(JobNamed(pipeline, "test"))
        /\ HasJob(pipeline, "code-quality")
        /\ PlaceholderOnly(JobNamed(pipeline, "code-quality"))

C12_Witness ==
    /\ Generated
    /\ tech_stack.primary_language = "Unknown"
    /\ tech_stack.build_tools = <<"maven", "npm">>
    /\ tech_stack.frameworks # <<>>
    /\ tech_stack.has_tests
    /\ tech_stack.has_dockerfile
    /\ PlaceholderOnly(JobNamed(pipeline, "test"))

\* The package manager a dependency-restore command of the before-script
\* belongs to.
ManagerOf(cmd) ==
    CASE cmd = "npm ci --cache .npm --prefer-offline" -> "npm"
      [] cmd = "yarn install --frozen-lockfile --cache-folder .yarn" -> "yarn"
      [] cmd = "pnpm install --frozen-lockfile" -> "pnpm"
      [] cmd = "python -m pip install --upgrade pip" -> "pip"
      [] cmd = "pip install -r requirements.txt --cache-dir .cache/pip" -> "pip"
      [] cmd = "mvn dependency:go-offline $MAVEN_CLI_OPTS" -> "maven"
      [] OTHER -> "none"

\* The package managers the before-script has a rule for, by priority.
ManagersOf(language) ==
    CASE language \in {"JavaScript", "TypeScript"} -> <<"npm", "yarn", "pnpm">>
      [] language = "Python" -> <<"pip">>
      [] language \in {"Java", "Kotlin"} -> <<"maven">>
      [] OTHER -> <<>>

(***************************************************************************)
(* C14: for every profile each dependency-restore command of the           *)
(* before-script belongs to a package manager that is in build_tools; the  *)
(* commands are those of exactly one manager, the first by the fixed       *)
(* priority of the ecosystem (npm, then yarn, then pnpm) that is in        *)
(* build_tools; and the before-script is empty when no build tool matches  *)
(* a rule for the primary language.                                        *)
(***************************************************************************)
C14_BeforeScriptByTool ==
    Generated =>
        LET bs == pipeline.before_script
            tools == Range(tech_stack.build_tools)
            managers == ManagersOf(tech_stack.primary_language)
            matching == {i \in 1..Len(managers) : managers[i] \in tools}
        IN /\ \A i \in 1..Len(bs) : ManagerOf(bs[i]) \in tools
           /\ matching = {} => bs = <<>>
           /\ matching # {} =>
                /\ bs # <<>>
                /\ \A i \in 1..Len(bs) : ManagerOf(bs[i]) = managers[FirstOf(matching)]

(***************************************************************************)
(* C15: the docker-build and docker-security-scan jobs are both in the     *)
(* pipeline iff has_dockerfile, and when present each runs only on the     *)
(* branches main and develop.                                              *)
(***************************************************************************)
C15_ContainerJobs ==
    Generated =>
        /\ HasJob(pipeline, "docker-build") <=> tech_stack.has_dockerfile
        /\ HasJob(pipeline, "docker-security-scan") <=> tech_stack.has_dockerfile
        /\ \A i \in 1..Len(pipeline.jobs) :
             pipeline.jobs[i].name \in {"docker-build", "docker-security-scan"} =>
                /\ Range(pipeline.jobs[i].only) = {"main", "develop"}
                /\ Len(pipeline.jobs[i].only) = 2

C15_Witness ==
    /\ Generated
    /\ tech_stack.has_dockerfile
    /\ HasJob(pipeline, "docker-build")
    /\ JobNamed(pipeline, "docker-security-scan").only = <<"main", "develop">>

DeployStages == {"deploy-staging", "deploy-production"}

(***************************************************************************)
(* C16: every pipeline holds exactly the two deployment jobs               *)
(* deploy-staging and deploy-production, once each; both need a manual     *)
(* trigger; deploy-staging runs only on develop and deploy-production only *)
(* on main; no job of a deployment stage runs without a manual trigger.    *)
(***************************************************************************)
C16_DeploymentJobs ==
    Generated =>
        LET names == JobNames(pipeline)
            deploying == {i \in 1..Len(pipeline.jobs) : pipeline.jobs[i].stage \in DeployStages}
        IN /\ Count(names, "deploy-staging") = 1
           /\ Count(names, "deploy-production") = 1
           /\ {pipeline.jobs[i].name : i \in deploying} = DeployStages
           /\ Cardinality(deploying) = 2
           /\ \A i \in deploying : pipeline.jobs[i].when = "manual"
           /\ JobNamed(pipeline, "deploy-staging").stage = "deploy-staging"
           /\ JobNamed(pipeline, "deploy-staging").only = <<"develop">>
           /\ JobNamed(pipeline, "deploy-production").stage = "deploy-production"
           /\ JobNamed(pipeline, "deploy-production").only = <<"main">>

C16_Witness ==
    /\ Generated
    /\ ~tech_stack.has_dockerfile
    /\ tech_stack.primary_language = "Unknown"
    /\ JobNamed(pipeline, "deploy-production").when = "manual"
    /\ JobNamed(pipeline, "deploy-staging").when = "manual"

(***************************************************************************)
(* Test detection on its own                                               *)
(***************************************************************************)

\* _check_tests applied to a file list.
CheckTests ==
    /\ pc = "listed"
    /\ tech_stack' = [primary_language |-> "<none>",
                      has_tests |-> check_tests(file_structure)]
    /\ pc' = "tested"
    /\ UNCHANGED <<file_structure, project_dir, disk, language_stats, confidence,
                   repository, generators, pipeline, calls,
                   cleanups, console, git_available>>

MaxTestFiles == 2

\* Records with and without test names, inside and outside test directories,
\* and records whose name or directory only begins with or contains such a word.
TestCatalog ==
    {File(<<>>, <<"main", ".", "py">>),
     File(<<>>, <<"test", "imonials", ".", "txt">>),
     File(<<"/", "test", "data">>, <<"x">>),
     File(<<"/", "src", "/", "test", "data">>, <<"x">>),
     File(<<"/", "src">>, <<"con", "test", ".", "txt">>),
     File(<<>>, <<"spec", "ification", ".", "md">>),
     File(<<"/", "test", "s">>, <<"a", ".", "txt">>),
     File(<<"/", "src", "/", "__", "test", "s", "__">>, <<"a", ".", "js">>),
     File(<<>>, <<"test", "_", "a", ".", "py">>),
     File(<<>>, <<"app", ".", "spec", ".", "ts">>),
     File(<<"/", "src">>, <<"App", "Test", ".", "java">>),
     Directory(<<>>, <<"spec", "s">>),
     Directory(<<"/", "src">>, <<"test">>)}

TestFileLists ==
    UNION {[1..n -> TestCatalog] : n \in 0..MaxTestFiles}

InitTests ==
    /\ pc = "listed"
    /\ file_structure \in TestFileLists
    /\ project_dir = ""
    /\ disk = <<>>
    /\ language_stats = <<>>
    /\ tech_stack = NoStack
    /\ confidence = NoConfidence
    /\ repository = [name |-> "Repo"]
    /\ generators = [g \in GeneratorIds |-> NewGenerator]
    /\ pipeline = NoPipeline
    /\ calls = {}
    /\ cleanups = 0
    /\ console = NoInput
    /\ git_available = TRUE

NextTests == CheckTests

SpecTests == InitTests /\ [][NextTests]_vars

\* The directory segments of a record's path: the pieces between slashes, the
\* last one only when the record is itself a directory.
Slashes(p) == {i \in 1..Len(p) : p[i] = "/"}

NextSlash(p, i) == FirstOf({j \in Slashes(p) : j > i} \cup {Len(p) + 1})

DirectorySegments(record) ==
    LET p == record.path_tokens IN
    {SubSeq(p, i + 1, NextSlash(p, i) - 1) :
        i \in {k \in Slashes(p) : NextSlash(p, k) <= Len(p) \/ record.type = "directory"}}

InTestDirectory(record) ==
    \E d \in 1..Len(test_directories) : test_directories[d] \in DirectorySegments(record)

(***************************************************************************)
(* C17: has_tests is TRUE iff some record's name matches a test-naming     *)
(* pattern or some record's path has a directory segment exactly equal to  *)
(* test, tests, __tests__, spec or specs; a record whose name or path only *)
(* begins with or contains such a word does not set it.                    *)
(***************************************************************************)
C17_TestsBySegment ==
    pc = "tested" =>
        (tech_stack.has_tests <=>
            \E k \in 1..Len(file_structure) :
                \/ MatchesTestPattern(file_structure[k].name_tokens)
                \/ InTestDirectory(file_structure[k]))

(***************************************************************************)
(* Analysis of trees whose files cannot all be read                        *)
(***************************************************************************)

FileConditions == {"ok", "missing", "unreadable", "oversize"}
ManifestConditions == FileConditions \cup {"unparsable"}

\* Content no manifest parser finds anything in.
GarbledText == <<"<", "<", "<", "\n">>

\* The entry as the disk holds it under a condition.
Degrade(entry, condition) ==
    CASE condition = "missing" -> [entry EXCEPT !.stat = Missing]
      [] condition = "unreadable" -> [entry EXCEPT !.stat.readable = FALSE]
      [] condition = "oversize" -> [entry EXCEPT !.stat.size = MaxFileBytes + 1]
      [] condition = "unparsable" ->
            [entry EXCEPT !.stat.text = GarbledText, !.stat.doc = NoDoc]
      [] OTHER -> entry

\* Per ecosystem: a source file, a second one, and the manifest naming a
\* language version and a framework.
SoftProjects ==
    {[main |-> Plain(File(<<>>, <<"app", ".", "go">>), SourceText(3)),
      util |-> Plain(File(<<>>, <<"util", ".", "go">>), SourceText(2)),
      manifest |-> Plain(File(<<>>, <<"go", ".", "mod">>),
          <<"module", " ", "m", "\n", "go", " ", "1", ".", "21", "\n", "require", " ",
            "github", ".", "com", "/", "gin", "-", "go", "nic", "/", "gin", " ",
            "v", "1", ".", "9", ".", "1", "\n">>)],
     [main |-> Plain(File(<<>>, <<"index", ".", "js">>), SourceText(3)),
      util |-> Plain(File(<<>>, <<"util", ".", "js">>), SourceText(2)),
      manifest |-> Entry(File(<<>>, <<"package", ".", "json">>),
          <<"{", "\n", "}", "\n">>,
          [NoDoc EXCEPT !.valid = TRUE, !.has_node = TRUE,
                        !.node = <<">", "=", "18", ".", "0", ".", "0">>,
                        !.dependencies = {"express"}])],
     [main |-> Plain(File(<<>>, <<"Main", ".", "java">>), SourceText(3)),
      util |-> Plain(File(<<>>, <<"Util", ".", "java">>), SourceText(2)),
      manifest |-> Entry(File(<<>>, <<"pom", ".", "xml">>),
          <<"<", "project", ">", "\n">>,
          [NoDoc EXCEPT !.valid = TRUE, !.namespaced = TRUE,
                        !.properties = <<[tag |-> <<"{http://maven.apache.org/POM/4.0.0}",
                                                    "java", ".", "version">>,
                                          text |-> "17"]>>,
                        !.artifact_ids = << <<"spring", "-", "boot", "-", "starter">> >>])],
     [main |-> Plain(File(<<>>, <<"main", ".", "py">>), SourceText(3)),
      util |-> Plain(File(<<>>, <<"util", ".", "py">>), SourceText(2)),
      manifest |-> Plain(File(<<>>, <<"pyproject", ".", "toml">>),
          <<"[", "project", "]", "\n", "requires-python", " ", "=", " ",
            "\"", ">", "=", "3", ".", "11", "\"", "\n",
            "dependencies", " ", "=", " ", "[", "\"", "Django", "\"", "]", "\n">>)]}

\* A one-line script in a language of no ecosystem above.
RubyTool == Plain(File(<<>>, <<"tool", ".", "rb">>), SourceText(1))

SoftTrees ==
    {<<Degrade(p.main, c)>>
            \o (CASE second = "same" -> <<p.util>>
                  [] second = "other" -> <<RubyTool>>
                  [] second = "both" -> <<RubyTool, p.util>>
                  [] OTHER -> <<>>)
            \o <<Degrade(p.manifest, m)>> :
        p \in SoftProjects, c \in FileConditions, second \in {"none", "same", "other", "both"},
        m \in ManifestConditions}

\* The disk holds every entry that exists, whatever its name.
InitSoft ==
    /\ pc = "scanned"
    /\ \E tree \in SoftTrees : file_structure = FilesOf(tree) /\ disk = DiskOfTree(tree)
    /\ project_dir \in {"", CloneDir}
    /\ language_stats = <<>>
    /\ tech_stack = NoStack
    /\ confidence = NoConfidence
    /\ repository = [name |-> "Repo"]
    /\ generators = [g \in GeneratorIds |-> NewGenerator]
    /\ pipeline = NoPipeline
    /\ calls = {}
    /\ cleanups = 0
    /\ console = NoInput
    /\ git_available = TRUE

NextSoft == AnalyzeRepository

SpecSoft == InitSoft /\ [][NextSoft]_vars

\* A file the detector's reads get nothing from: missing, unreadable or
\* larger than the ceiling; a manifest also when nothing in it parses.
Unavailable(file_info) ==
    LET st == Stat(file_info.full_path)
    IN ~st.exists \/ ~st.readable \/ st.size > MaxFileBytes

AffectedManifest(file_info) ==
    LET st == Stat(file_info.full_path)
    IN Unavailable(file_info) \/ st.text = GarbledText

\* The lines of a language in the files that are available.
AvailableLines(language) ==
    SumSeq([k \in 1..Len(file_structure) |->
        LET f == file_structure[k] IN
        IF /\ f.type = "file"
           /\ Lower(f.extension) \in RecognizedExtensions
           /\ LanguageOf(Lower(f.extension)) = language
           /\ ~Unavailable(f)
        THEN CountSignificant(Stat(f.full_path).text) ELSE 0])

SoftManifestNames == {"go.mod", "package.json", "pom.xml", "pyproject.toml"}

SoftManifest ==
    file_structure[CHOOSE k \in 1..Len(file_structure) :
                       file_structure[k].name \in SoftManifestNames]

(***************************************************************************)
(* C13: with the tree on disk, whatever subset of the listed files is      *)
(* missing, unreadable, larger than 1 MiB, or (a manifest) without         *)
(* parsable content, the analysis completes and each such file gives its   *)
(* default: no lines to its language, no language-version override, and no *)
(* frameworks; the other files count as they do otherwise.                 *)
(***************************************************************************)
C13_SoftAbsence ==
    pc = "analyzed" /\ project_dir # "" =>
        /\ \A i \in 1..Len(tech_stack.language_stats) :
             LET e == tech_stack.language_stats[i]
             IN e.lines = AvailableLines(e.language)
        /\ \A k \in 1..Len(file_structure) :
             LET f == file_structure[k] IN
             (f.type = "file" /\ Lower(f.extension) \in RecognizedExtensions
                /\ AvailableLines(LanguageOf(Lower(f.extension))) > 0)
             => \E i \in 1..Len(tech_stack.language_stats) :
                    tech_stack.language_stats[i].language = LanguageOf(Lower(f.extension))
        /\ AffectedManifest(SoftManifest) =>
             /\ tech_stack.version_info.language_version
                    = default_versions(tech_stack.primary_language)
             /\ tech_stack.frameworks
                    = SortedBy(analyze_by_file_structure(file_structure), FrameworkOrder)

\* The manifests whose parser runs for a primary language.
ApplicableManifests(language) ==
    CASE language \in {"JavaScript", "TypeScript"} -> {"package.json"}
      [] language = "Python" -> {"requirements.txt", "pyproject.toml"}
      [] language \in {"Java", "Kotlin"} -> {"pom.xml", "build.gradle"}
      [] language = "Go" -> {"go.mod"}
      [] OTHER -> {}

\* The parser of the manifest cannot finish: the file cannot be opened, the
\* document is not well formed, or a dependency's artifactId has no text.
ParserFails(name) ==
    LET st == Stat(find_file(file_structure, name))
    IN \/ ~st.exists
       \/ ~st.readable
       \/ name \in {"package.json", "pom.xml"} /\ ~st.doc.valid
       \/ name = "pom.xml" /\ st.doc.namespaced
             /\ \E i \in 1..Len(st.doc.artifact_ids) : st.doc.artifact_ids[i] = NoneText

ParserResult(name) ==
    LET path == find_file(file_structure, name)
    IN CASE name = "package.json" -> analyze_package_json(path)
         [] name = "requirements.txt" -> analyze_requirements_txt(path)
         [] name = "pyproject.toml" -> analyze_pyproject_toml(path)
         [] name = "pom.xml" -> analyze_pom_xml(path)
         [] name = "build.gradle" -> analyze_gradle(path)
         [] name = "go.mod" -> analyze_go_mod(path)
         [] OTHER -> {}

(***************************************************************************)
(* C20: with the tree on disk, frameworks is the sorted, duplicate-free    *)
(* union of the results of the manifest parsers applicable to the primary  *)
(* language whose manifest is listed and of the structural heuristics;     *)
(* manifests of other ecosystems add nothing, and a parser that fails adds *)
(* the empty set.                                                          *)
(***************************************************************************)
C20_FrameworkUnion ==
    Analyzed /\ project_dir # "" =>
        LET present == {name \in ApplicableManifests(tech_stack.primary_language) :
                            HasFile(name)}
            by_manifest == UNION {IF ParserFails(name) THEN {} ELSE ParserResult(name) :
                                     name \in present}
        IN tech_stack.frameworks
             = SortedBy(by_manifest \cup analyze_by_file_structure(file_structure),
                        FrameworkOrder)

Recognized(file_info) ==
    file_info.type = "file" /\ Lower(file_info.extension) \in RecognizedExtensions

\* The file's content on disk has a line that is not blank.
HasCode(file_info) ==
    LET st == Stat(file_info.full_path)
    IN st.exists /\ CountSignificant(st.text) >= 1

EntriesDescending(stats) ==
    /\ \A i \in 1..Len(stats) : stats[i].lines >= 1
    /\ \A i \in 1..(Len(stats) - 1) : stats[i].lines >= stats[i + 1].lines

(***************************************************************************)
(* C18 as stated: language_stats is non-empty iff the file list holds a    *)
(* record with a recognized extension whose content has a non-blank line;  *)
(* every entry has at least one significant line and the entries are in    *)
(* descending order of lines.                                              *)
(***************************************************************************)
C18_NonEmptyIffCode ==
    pc = "analyzed" =>
        /\ tech_stack.language_stats # <<>>
             <=> \E k \in 1..Len(file_structure) :
                    Recognized(file_structure[k]) /\ HasCode(file_structure[k])
        /\ EntriesDescending(tech_stack.language_stats)

(***************************************************************************)
(* C18 amended: language_stats is non-empty iff a project root was given   *)
(* and the file list holds a record with a recognized extension whose file *)
(* is readable, at most 1 MiB, and has a non-blank line; every entry has   *)
(* at least one significant line and the entries are in descending order.  *)
(***************************************************************************)
C18_NonEmptyIffCounted ==
    pc = "analyzed" =>
        /\ tech_stack.language_stats # <<>>
             <=> /\ project_dir # ""
                 /\ \E k \in 1..Len(file_structure) :
                        /\ Recognized(file_structure[k])
                        /\ ~Unavailable(file_structure[k])
                        /\ HasCode(file_structure[k])
        /\ EntriesDescending(tech_stack.language_stats)

C18_Witness ==
    /\ pc = "analyzed"
    /\ Len(tech_stack.language_stats) >= 2
    /\ tech_stack.language_stats[1].lines > tech_stack.language_stats[2].lines
    /\ \E k \in 1..Len(file_structure) :
          /\ Recognized(file_structure[k]) /\ HasCode(file_structure[k])
          /\ Stat(file_structure[k].full_path).size > MaxFileBytes

(***************************************************************************)
(* C19: analysed without a project root, no file content is read: there    *)
(* are no language statistics, language_version is the static default of   *)
(* the primary language, frameworks is exactly the structural-heuristic    *)
(* set, and build_tools, has_tests and has_dockerfile are what the file    *)
(* list alone gives, as with a root.                                       *)
(***************************************************************************)
C19_RootAbsent ==
    Analyzed /\ project_dir = "" =>
        /\ tech_stack.language_stats = <<>>
        /\ tech_stack.version_info.language_version
               = default_versions(tech_stack.primary_language)
        /\ tech_stack.frameworks
               = SortedBy(analyze_by_file_structure(file_structure), FrameworkOrder)
        /\ tech_stack.build_tools = detect_build_tools(file_structure)
        /\ tech_stack.has_tests = check_tests(file_structure)
        /\ tech_stack.has_dockerfile = check_dockerfile(file_structure)

C19_Witness ==
    /\ Analyzed /\ project_dir = ""
    /\ HasFile("go.mod") /\ HasFile("app.go")
    /\ Stat(find_file(file_structure, "app.go")).exists
    /\ tech_stack.build_tools = <<"go">>
    /\ tech_stack.version_info.language_version = "latest"

StagesOf(doc) == Range(doc.stages)

(***************************************************************************)
(* C21: in every synthesized pipeline every stage named in the stages list *)
(* has at least one job assigned to it, whatever the profile (has_tests    *)
(* and has_dockerfile FALSE included).                                     *)
(***************************************************************************)
C21_NoEmptyStage ==
    Generated =>
        \A i \in 1..Len(pipeline.stages) : JobsOfStage(pipeline, pipeline.stages[i]) # {}

(***************************************************************************)
(* C22: in the serialized pipeline every job's script is a flat sequence:  *)
(* each command is a list item of its own, none sits in a list inside an   *)
(* item, and no command is repeated; this covers the build and test jobs   *)
(* of JavaScript/TypeScript and Python, assembled from a command list.     *)
(***************************************************************************)
C22_FlatScripts ==
    Generated =>
        \A j \in 1..Len(pipeline.jobs) :
            LET script == pipeline.jobs[j].script IN
            /\ \A i \in 1..Len(script) : ~script[i].nested
            /\ \A i \in 1..Len(script) : \A k \in 1..Len(script) :
                   script[i].cmd = script[k].cmd => i = k

\* The position of a job's stage in the stage list, 0 when it is not there.
StageIndex(doc, j) == IndexOf(doc.stages, doc.jobs[j].stage)

(***************************************************************************)
(* C24: every synthesized pipeline is well formed: each job's stage is in  *)
(* the stages list, the job names are pairwise distinct, and the jobs come *)
(* in the order of their stages (no job precedes a job of an earlier       *)
(* stage).                                                                 *)
(***************************************************************************)
C24_WellFormed ==
    Generated =>
        /\ \A j \in 1..Len(pipeline.jobs) : pipeline.jobs[j].stage \in StagesOf(pipeline)
        /\ \A j \in 1..Len(pipeline.jobs) : \A k \in 1..Len(pipeline.jobs) :
               pipeline.jobs[j].name = pipeline.jobs[k].name => j = k
        /\ \A j \in 1..Len(pipeline.jobs) : \A k \in 1..Len(pipeline.jobs) :
               j < k => StageIndex(pipeline, j) <= StageIndex(pipeline, k)

C24_Witness ==
    /\ Generated
    /\ tech_stack.has_dockerfile /\ tech_stack.has_tests
    /\ Len(pipeline.jobs) = 10
    /\ Len(pipeline.stages) = 7
    /\ JobNamed(pipeline, "docker-security-scan").stage = "docker-build"

MavenBuildCommands ==
    <<"mvn clean compile $MAVEN_CLI_OPTS", "mvn package -DskipTests $MAVEN_CLI_OPTS">>

MavenTestCommands == <<"mvn test $MAVEN_CLI_OPTS", "mvn jacoco:report $MAVEN_CLI_OPTS">>

MavenQualityCommands ==
    <<"mvn checkstyle:check $MAVEN_CLI_OPTS || true", "mvn pmd:check $MAVEN_CLI_OPTS || true">>

(***************************************************************************)
(* C25: for primary language Java or Kotlin with neither maven nor gradle  *)
(* in build_tools the build job and, when has_tests, the test job are the  *)
(* generic placeholder echo templates, while image, cache paths and        *)
(* quality job stay the Maven-based Java ones; with maven in build_tools   *)
(* the Maven build and test templates are chosen, gradle present or not.   *)
(***************************************************************************)
C25_JvmWithoutBuildTool ==
    Generated /\ tech_stack.primary_language \in {"Java", "Kotlin"} =>
        LET tools == Range(tech_stack.build_tools)
            version == tech_stack.version_info.language_version
        IN /\ pipeline.image = "maven:3.8-openjdk-" \o (IF version = "" THEN "11" ELSE version)
           /\ pipeline.cache.paths = <<".m2/repository/", ".gradle/">>
           /\ Commands(JobNamed(pipeline, "code-quality").script) = MavenQualityCommands
           /\ HasJob(pipeline, "test") <=> tech_stack.has_tests
           /\ ("maven" \notin tools /\ "gradle" \notin tools) =>
                /\ PlaceholderOnly(JobNamed(pipeline, "build"))
                /\ tech_stack.has_tests => PlaceholderOnly(JobNamed(pipeline, "test"))
           /\ "maven" \in tools =>
                /\ Commands(JobNamed(pipeline, "build").script) = MavenBuildCommands
                /\ tech_stack.has_tests =>
                     Commands(JobNamed(pipeline, "test").script) = MavenTestCommands

C25_Witness ==
    /\ Generated
    /\ tech_stack.primary_language = "Kotlin"
    /\ tech_stack.build_tools = <<"npm">>
    /\ tech_stack.has_tests
    /\ PlaceholderOnly(JobNamed(pipeline, "build"))
    /\ PlaceholderOnly(JobNamed(pipeline, "test"))
    /\ pipeline.image = "maven:3.8-openjdk-11"

PomVersion ==
    IF HasFile("pom.xml")
    THEN extract_java_version_from_pom(find_file(file_structure, "pom.xml")) ELSE ""

GradleVersion ==
    IF HasFile("build.gradle")
    THEN extract_java_version_from_gradle(find_file(file_structure, "build.gradle")) ELSE ""

(***************************************************************************)
(* C26: for primary language Java, analysed with the tree on disk, the     *)
(* language version is the one build.gradle yields when it yields one,     *)
(* also when pom.xml yields one too; otherwise the one pom.xml yields;     *)
(* otherwise the default.  For primary language Kotlin no manifest is      *)
(* consulted: the language version is always the static default 1.8.       *)
(***************************************************************************)
C26_JavaVersionPrecedence ==
    Analyzed =>
        /\ (tech_stack.primary_language = "Java" /\ project_dir # "") =>
              tech_stack.version_info.language_version
                 = IF GradleVersion # "" THEN GradleVersion
                   ELSE IF PomVersion # "" THEN PomVersion
                   ELSE "11"
        /\ tech_stack.primary_language = "Kotlin" =>
              tech_stack.version_info.language_version = "1.8"

C26_Witness ==
    /\ Analyzed
    /\ tech_stack.primary_language = "Java"
    /\ PomVersion # "" /\ GradleVersion # "" /\ PomVersion # GradleVersion
    /\ tech_stack.version_info.language_version = GradleVersion

PrimaryDetected == pc \in {"primary", "analyzed", "generated"}

(***************************************************************************)
(* C29: no extension of the extension table maps to an excluded language,  *)
(* so the primary language is "Unknown" exactly when the statistics are    *)
(* empty and otherwise a language of the statistics with the maximal       *)
(* number of significant lines; it is what the selection without the       *)
(* exclusion branch gives.                                                 *)
(***************************************************************************)
C29_PrimaryIsMaximal ==
    /\ \A i \in 1..Len(language_extensions) :
           language_extensions[i][2] \notin exclude_languages
    /\ PrimaryDetected =>
        /\ tech_stack.primary_language = "Unknown" <=> language_stats = <<>>
        /\ language_stats # <<>> =>
             \E i \in 1..Len(language_stats) :
                /\ language_stats[i].language = tech_stack.primary_language
                /\ \A j \in 1..Len(language_stats) :
                       language_stats[j].lines <= language_stats[i].lines
        /\ \A i \in 1..Len(language_stats) :
               language_stats[i].language \notin exclude_languages
        /\ tech_stack.primary_language = IF language_stats = <<>> THEN "Unknown"
                                         ELSE language_stats[1].language

C29_Witness ==
    /\ pc = "primary"
    /\ Len(language_stats) = 3
    /\ language_stats[1].lines = language_stats[2].lines
    /\ language_stats[2].lines > language_stats[3].lines
    /\ tech_stack.primary_language = language_stats[1].language

(***************************************************************************)
(* Analysis of the same records in every order                             *)
(***************************************************************************)

MaxOrderFiles == 3

\* Sources of two languages, two records named go.mod, and the two presence
\* markers.
OrderCatalog ==
    {Plain(File(<<>>, <<"a", ".", "py">>), SourceText(1)),
     Plain(File(<<>>, <<"b", ".", "go">>), SourceText(1)),
     Plain(File(<<>>, <<"go", ".", "mod">>),
           <<"module", " ", "m", "\n", "go", " ", "1", ".", "21", "\n">>),
     Plain(File(<<"/", "sub">>, <<"go", ".", "mod">>),
           <<"module", " ", "s", "\n", "go", " ", "1", ".", "18", "\n", "require", " ",
             "github", ".", "com", "/", "gin", "-", "go", "nic", "/", "gin", " ",
             "v", "1", ".", "9", ".", "1", "\n">>),
     DockerfileEntry,
     TestsDirectory}

\* The lists of at most n distinct catalog entries, in every order.
OrderedTrees(n) ==
    {t \in UNION {[1..k -> OrderCatalog] : k \in 0..n} :
        \A i \in 1..Len(t) : \A j \in 1..Len(t) : t[i] = t[j] => i = j}

InitOrder ==
    /\ pc = "scanned"
    /\ \E tree \in OrderedTrees(MaxOrderFiles) :
          file_structure = FilesOf(tree) /\ disk = DiskOfTree(tree)
    /\ project_dir = CloneDir
    /\ language_stats = <<>>
    /\ tech_stack = NoStack
    /\ confidence = NoConfidence
    /\ repository = [name |-> "Repo"]
    /\ generators = [g \in GeneratorIds |-> NewGenerator]
    /\ pipeline = NoPipeline
    /\ calls = {}
    /\ cleanups = 0
    /\ console = NoInput
    /\ git_available = TRUE

NextOrder == AnalyzeRepository

SpecOrder == InitOrder /\ [][NextOrder]_vars

\* The rearrangements of a list.
Rearrangements(files) ==
    {[i \in 1..Len(files) |-> files[f[i]]] :
        f \in {g \in [1..Len(files) -> 1..Len(files)] :
                  \A i \in 1..Len(files) : \A j \in 1..Len(files) : g[i] = g[j] => i = j}}

\* The fields of a profile that the order of the records should not touch.
OrderFree(ts) ==
    [primary_language |-> ts.primary_language,
     language_version |-> ts.version_info.language_version,
     frameworks |-> ts.frameworks,
     build_tools |-> ts.build_tools,
     has_tests |-> ts.has_tests,
     has_dockerfile |-> ts.has_dockerfile]

(***************************************************************************)
(* C28: the profile is the same for every rearrangement of the file list:  *)
(* primary language (also with two languages of equal line counts),        *)
(* language version and frameworks (also with several records of one       *)
(* manifest name), build tools and the two presence flags do not depend on *)
(* the order of the records.                                               *)
(***************************************************************************)
C28_OrderIndependent ==
    pc = "analyzed" =>
        \A files \in Rearrangements(file_structure) :
            OrderFree(detect_tech_stack(files, project_dir, {})) = OrderFree(tech_stack)

(***************************************************************************)
(* RepositoryAnalyzer: acquisition of the file list                        *)
(***************************************************************************)

skip_dirs ==
    {".git", "node_modules", "__pycache__", "venv", "env", "target", "build", "dist",
     ".idea", ".vscode", ".gradle"}

\* _should_skip_dir on a directory name.
should_skip_dir(dirname) ==
    StartsWith(dirname, <<".">>) \/ JoinTokens(dirname) \in skip_dirs

allowed_hidden == {".gitignore", ".env.example", ".dockerignore", ".gitlab-ci.yml"}

\* _should_skip_file on whatever string the caller passes.
should_skip_file(filename) ==
    IF StartsWith(filename, <<".">>) THEN JoinTokens(filename) \notin allowed_hidden
    ELSE FALSE

\* An entry of a repository: the names of the directories above it, its own
\* name, and "tree" for a directory or "blob" for a file.
Item(dirs, name, type) == [dirs |-> dirs, name |-> name, type |-> type]

\* dir1/dir2/.../name in pieces.
RECURSIVE RelativePath(_, _)
RelativePath(dirs, name) ==
    IF dirs = <<>> THEN name
    ELSE Head(dirs) \o <<"/">> \o RelativePath(Tail(dirs), name)

\* /dir1/dir2 in pieces, empty for the root.
RECURSIVE DirPath(_)
DirPath(dirs) == IF dirs = <<>> THEN <<>> ELSE <<"/">> \o Head(dirs) \o DirPath(Tail(dirs))

RECURSIVE Concat(_)
Concat(seqs) == IF seqs = <<>> THEN <<>> ELSE Head(seqs) \o Concat(Tail(seqs))

\* The record _analyze_files appends for an entry found under root.
WalkRecord(item, root) ==
    LET base == IF item.type = "tree" THEN Directory(DirPath(item.dirs), item.name)
                ELSE File(DirPath(item.dirs), item.name)
    IN [base EXCEPT !.full_path = root \o base.path]

\* os.walk from the directory dirs of the tree under root: the kept
\* sub-directories, the kept files, then the walk of each kept sub-directory.
\* Entries are listed in the order the tree holds them.
RECURSIVE WalkFrom(_, _, _)
WalkFrom(items, dirs, root) ==
    LET IsKeptDir(item) ==
            item.dirs = dirs /\ item.type = "tree" /\ ~should_skip_dir(item.name)
        IsKeptFile(item) ==
            item.dirs = dirs /\ item.type = "blob" /\ ~should_skip_file(item.name)
        kept_dirs == SelectSeq(items, IsKeptDir)
        kept_files == SelectSeq(items, IsKeptFile)
    IN [i \in 1..Len(kept_dirs) |-> WalkRecord(kept_dirs[i], root)]
       \o [i \in 1..Len(kept_files) |-> WalkRecord(kept_files[i], root)]
       \o Concat([i \in 1..Len(kept_dirs) |->
                     WalkFrom(items, Append(dirs, kept_dirs[i].name), root)])

\* _analyze_files with temp_dir = root holding the entries items.
analyze_files(items, root) == WalkFrom(items, <<>>, root)

\* The record _download_github_tree appends for an item of the API response:
\* full_path is the path relative to the repository.
TreeRecord(item) ==
    LET base == IF item.type = "tree" THEN Directory(DirPath(item.dirs), item.name)
                ELSE File(DirPath(item.dirs), item.name)
    IN [base EXCEPT !.full_path = JoinTokens(RelativePath(item.dirs, item.name))]

\* _download_github_tree on the items of the response: _should_skip_file is
\* given the whole relative path of each item.
download_github_tree(items) ==
    LET Kept(item) == ~should_skip_file(RelativePath(item.dirs, item.name))
        kept == SelectSeq(items, Kept)
    IN [i \in 1..Len(kept) |-> TreeRecord(kept[i])]

\* What git leaves in the clone directory besides the work tree.
GitItems ==
    <<Item(<<>>, <<".", "git">>, "tree"),
      Item(<< <<".", "git">> >>, <<"config">>, "blob")>>

\* The repositories: groups of entries, listed as the tree API lists them.
RepoCatalog ==
    <<Item(<<>>, <<".", "env">>, "blob"),
      Item(<<>>, <<".", "github">>, "tree"),
      Item(<< <<".", "github">> >>, <<"ci", ".", "yml">>, "blob"),
      Item(<<>>, <<".", "gitignore">>, "blob"),
      Item(<<>>, <<"README", ".", "md">>, "blob"),
      Item(<<>>, <<"build">>, "tree"),
      Item(<< <<"build">> >>, <<"out", ".", "js">>, "blob"),
      Item(<<>>, <<"node", "_", "modules">>, "tree"),
      Item(<< <<"node", "_", "modules">> >>, <<"x", ".", "js">>, "blob"),
      Item(<<>>, <<"src">>, "tree"),
      Item(<< <<"src">> >>, <<".", "secret">>, "blob"),
      Item(<< <<"src">> >>, <<"app", ".", "js">>, "blob")>>

\* Groups of catalog positions that make a tree closed under parents.
RepoUnits == {{1}, {2, 3}, {4}, {5}, {6, 7}, {8, 9}, {10, 11}, {10, 12}}

MaxRepoUnits == 3

RemoteTrees ==
    {LET S == UNION U
         Chosen(item) == \E i \in S : RepoCatalog[i] = item
     IN SelectSeq(RepoCatalog, Chosen) : U \in SubsetsUpTo(RepoUnits, MaxRepoUnits)}

(***************************************************************************)
(* SelfDeploy: the interactive driver and one run of the analysis          *)
(***************************************************************************)

\* KeyboardInterrupt or EOFError raised by input().
Interrupt == <<"<interrupt>">>

\* A URL is held as scheme, "://", host, then "/" and path pieces.
UrlWords == {"user", "repo", "tree", "main"}

\* validate_url: re.match, so only a prefix of the URL is examined.
validate_url(url) ==
    /\ Strip(url) # <<>>
    /\ Len(url) >= 7
    /\ url[1] \in {"http", "https"}
    /\ url[2] = "://"
    /\ url[3] \in {"github.com", "gitlab.com"}
    /\ url[4] = "/"
    /\ url[5] \in UrlWords
    /\ url[6] = "/"
    /\ url[7] \in UrlWords \cup {"."}

NoRepoInfo == [platform |-> "", owner |-> "", name |-> ""]

\* re.search(host/([^/]+)/([^/]+?)(?:\.git)?/?$) for one host.
MatchHost(url, host, platform) ==
    LET at == {i \in 1..(Len(url) - 1) : url[i] = host /\ url[i + 1] = "/"}
        rest == SubSeq(url, FirstOf(at) + 2, Len(url))
        cut == {i \in 1..Len(rest) : rest[i] = "/"}
        owner == SubSeq(rest, 1, FirstOf(cut) - 1)
        tail == SubSeq(rest, FirstOf(cut) + 1, Len(rest))
        body == IF tail # <<>> /\ tail[Len(tail)] = "/"
                THEN SubSeq(tail, 1, Len(tail) - 1) ELSE tail
        name == IF Len(body) > 2 /\ EndsWith(body, <<".", "git">>)
                THEN SubSeq(body, 1, Len(body) - 2) ELSE body
    IN IF at = {} \/ cut = {} THEN NoRepoInfo
       ELSE IF owner = <<>> \/ body = <<>> \/ "/" \in Range(body) THEN NoRepoInfo
       ELSE [platform |-> platform, owner |-> JoinTokens(owner), name |-> JoinTokens(name)]

\* _parse_repo_url: GitHub first, then GitLab; NoRepoInfo models None.
parse_repo_url(url) ==
    IF MatchHost(url, "github.com", "github") # NoRepoInfo
    THEN MatchHost(url, "github.com", "github")
    ELSE MatchHost(url, "gitlab.com", "gitlab")

\* What a directory is on disk.
DirStat == OnDisk(0, <<>>, NoDoc)

\* The directory an unpacked archive holds: <name>-<branch>.
ArchiveRoot == CloneDir \o "/repo-main"

ItemPath(item) == JoinTokens(DirPath(item.dirs) \o <<"/">> \o item.name)

\* The tree written under root, on top of the directories above.
Materialized(items, root, above) ==
    [p \in above \cup {root} \cup {root \o ItemPath(items[i]) : i \in 1..Len(items)} |->
        IF p \in above \cup {root} THEN DirStat
        ELSE LET i == CHOOSE k \in 1..Len(items) : root \o ItemPath(items[k]) = p
             IN IF items[i].type = "tree" THEN DirStat
                ELSE OnDisk(3, SourceText(1), NoDoc)]

\* shutil.rmtree(root): what is left of the disk.
Removed(root) ==
    LET everything == GitItems \o RepoCatalog
        below(r) == {r} \cup {r \o ItemPath(everything[i]) : i \in 1..Len(everything)}
        gone == below(root) \cup (IF root = CloneDir THEN below(ArchiveRoot) ELSE {})
    IN [p \in DOMAIN disk \ gone |-> disk[p]]

UrlLines ==
    {<<"exit">>, <<"Q">>, <<>>, <<" ">>,
     <<"ftp", "://", "github.com", "/", "user", "/", "repo">>,
     <<"https", "://", "github.com", "/", "user", "/", "repo">>,
     <<" ", "https", "://", "gitlab.com", "/", "user", "/", "repo", ".", "git", "\n">>,
     <<"https", "://", "github.com", "/", "user", "/", "repo", "/", "tree", "/", "main">>}

ExitWords == {"exit", "quit", "q"}

\* One turn of the loop of get_repository_url: a line is read; the loop of
\* run_interactive ends on an exit word or an interrupt, asks again on an empty
\* or invalid line, and otherwise calls run_analysis with the URL.
GetRepositoryUrl ==
    /\ pc = "url_prompt"
    /\ \E line \in UrlLines \cup {Interrupt} :
          /\ console' = line
          /\ IF line = Interrupt THEN pc' = "done" /\ UNCHANGED cleanups
             ELSE LET url == Strip(line) IN
                  IF JoinTokens(LowerSeq(url)) \in ExitWords
                  THEN pc' = "done" /\ UNCHANGED cleanups
                  ELSE IF url = <<>> \/ ~validate_url(url)
                  THEN pc' = "url_prompt" /\ UNCHANGED cleanups
                  ELSE pc' = "run" /\ cleanups' = 0
    /\ UNCHANGED <<file_structure, project_dir, disk, language_stats, tech_stack,
                   confidence, repository, generators, pipeline, calls, git_available>>

\* analyze_repository up to the choice of the acquisition method: the URL is
\* parsed; None raises ValueError.
ParseRepoUrl ==
    /\ pc = "run"
    /\ LET repo_info == parse_repo_url(Strip(console)) IN
       IF repo_info = NoRepoInfo
       THEN pc' = "failed" /\ UNCHANGED repository
       ELSE /\ pc' = "acquire"
            /\ repository' = [repository EXCEPT !.name = repo_info.name,
                                                !.platform = repo_info.platform]
    /\ UNCHANGED <<file_structure, project_dir, disk, language_stats, tech_stack,
                   confidence, generators, pipeline, calls, cleanups, console,
                   git_available>>

\* _clone_and_analyze: mkdtemp, then the clone succeeds and the clone
\* directory is walked, or it raises.  The disk is followed for the
\* directories of the current run.
CloneAndAnalyze ==
    /\ pc = "acquire"
    /\ git_available
    /\ project_dir' = CloneDir
    /\ \E cloned \in BOOLEAN :
          IF cloned
          THEN /\ disk' = Materialized(GitItems \o repository.tree, CloneDir, {})
               /\ file_structure' = analyze_files(GitItems \o repository.tree, CloneDir)
               /\ pc' = "scanned"
          ELSE /\ disk' = Materialized(<<>>, CloneDir, {})
               /\ pc' = "failed"
               /\ UNCHANGED file_structure
    /\ UNCHANGED <<language_stats, tech_stack, confidence, repository, generators,
                   pipeline, calls, cleanups, console, git_available>>

\* _download_and_analyze: mkdtemp, then by platform.  An archive of some
\* branch is unpacked (_extract_and_analyze re-points temp_dir to the unpacked
\* directory) or cannot be unpacked; without an archive GitHub falls back to
\* the tree API, which answers or fails, and GitLab raises.
DownloadAndAnalyze ==
    /\ pc = "acquire"
    /\ ~git_available
    /\ \E outcome \in {"archive", "bad archive", "no archive, tree", "no archive, error"} :
          CASE outcome = "archive" ->
                 /\ disk' = Materialized(repository.tree, ArchiveRoot, {CloneDir})
                 /\ project_dir' = ArchiveRoot
                 /\ file_structure' = analyze_files(repository.tree, ArchiveRoot)
                 /\ pc' = "scanned"
            [] outcome = "bad archive" ->
                 /\ disk' = Materialized(<<>>, CloneDir, {})
                 /\ project_dir' = CloneDir
                 /\ pc' = "failed"
                 /\ UNCHANGED file_structure
            [] outcome = "no archive, tree" /\ repository.platform = "github" ->
                 /\ disk' = Materialized(<<>>, CloneDir, {})
                 /\ project_dir' = CloneDir
                 /\ file_structure' = download_github_tree(repository.tree)
                 /\ pc' = "scanned"
            [] OTHER ->
                 /\ disk' = Materialized(<<>>, CloneDir, {})
                 /\ project_dir' = CloneDir
                 /\ pc' = "failed"
                 /\ UNCHANGED file_structure
    /\ UNCHANGED <<language_stats, tech_stack, confidence, repository, generators,
                   pipeline, calls, cleanups, console, git_available>>

\* run_analysis step 3: generate_gitlab_pipeline on the one generator that
\* SelfDeploy holds.
GeneratePipeline ==
    /\ pc = "analyzed"
    /\ pipeline' = generate_gitlab_pipeline_doc(generators[1],
                        [tech_stack |-> tech_stack, repository |-> repository])
    /\ pc' = "generated"
    /\ UNCHANGED <<file_structure, project_dir, disk, language_stats, tech_stack,
                   confidence, repository, generators, calls, cleanups, console,
                   git_available>>

\* A step of run_analysis after the acquisition raises: detection, the
\* report, synthesis, or saving the results.
Raise ==
    /\ pc \in {"scanned", "analyzed", "generated"}
    /\ pc' = "failed"
    /\ UNCHANGED <<file_structure, project_dir, disk, language_stats, tech_stack,
                   confidence, repository, generators, pipeline, calls, cleanups,
                   console, git_available>>

\* _save_results, after which run_analysis returns True.
SaveResults ==
    /\ pc = "generated"
    /\ pc' = "saved"
    /\ UNCHANGED <<file_structure, project_dir, disk, language_stats, tech_stack,
                   confidence, repository, generators, pipeline, calls, cleanups,
                   console, git_available>>

\* The finally clause of run_analysis: analyzer.cleanup(), then the return to
\* run_interactive, where the locals of the run are gone.  rmtree removes
\* temp_dir and temp_dir becomes None, or it raises and the exception is
\* swallowed.
Cleanup ==
    /\ pc \in {"saved", "failed"}
    /\ cleanups' = cleanups + 1
    /\ IF project_dir # "" /\ Stat(project_dir).exists
       THEN \E removed \in BOOLEAN :
               IF removed
               THEN disk' = Removed(project_dir) /\ project_dir' = ""
               ELSE UNCHANGED <<disk, project_dir>>
       ELSE UNCHANGED <<disk, project_dir>>
    /\ pc' = "continue_prompt"
    /\ file_structure' = <<>>
    /\ tech_stack' = NoStack
    /\ confidence' = NoConfidence
    /\ pipeline' = NoPipeline
    /\ console' = NoInput
    /\ language_stats' = <<>>
    /\ repository' = [repository EXCEPT !.name = "", !.platform = ""]
    /\ UNCHANGED <<generators, calls, git_available>>

\* "<da>" and "<net>" stand for the two Cyrillic answers of the source.
AnswerLines ==
    {<<"y">>, <<"Yes">>, <<"<da>">>, <<"n">>, <<"no", "\n">>, <<"<net>">>, <<"q">>,
     <<"maybe">>, <<>>}

YesWords == {"y", "yes", "<da>"}
NoWords == {"n", "no", "<net>"}

\* ask_continue treating the exit words as any other unknown answer.
ask_continue_ignoring_exit(line) ==
    IF line = Interrupt THEN "no"
    ELSE LET answer == JoinTokens(LowerSeq(Strip(line))) IN
         IF answer \in YesWords THEN "yes"
         ELSE IF answer \in NoWords THEN "no"
         ELSE "again"

\* One turn of the loop of ask_continue on the line read: True ("yes"),
\* False ("no"), or the question is asked again.
ask_continue(line) ==
    IF line = Interrupt THEN "no"
    ELSE LET answer == JoinTokens(LowerSeq(Strip(line))) IN
         IF answer \in YesWords THEN "yes"
         ELSE IF answer \in NoWords THEN "no"
         ELSE IF answer \in ExitWords THEN "no"
         ELSE "again"

\* The continue prompt of run_interactive: the loop goes on, ends, or the
\* question is asked again.
AskContinue ==
    /\ pc = "continue_prompt"
    /\ \E line \in AnswerLines \cup {Interrupt} :
          /\ console' = line
          /\ pc' = CASE ask_continue(line) = "yes" -> "url_prompt"
                      [] ask_continue(line) = "no" -> "done"
                      [] OTHER -> "continue_prompt"
    /\ UNCHANGED <<file_structure, project_dir, disk, language_stats, tech_stack,
                   confidence, repository, generators, pipeline, calls, cleanups,
                   git_available>>

InitDriver ==
    /\ pc = "url_prompt"
    /\ file_structure = <<>>
    /\ project_dir = ""
    /\ disk = <<>>
    /\ language_stats = <<>>
    /\ tech_stack = NoStack
    /\ confidence = NoConfidence
    /\ \E tree \in RemoteTrees : repository = [name |-> "", platform |-> "", tree |-> tree]
    /\ generators = [g \in GeneratorIds |-> NewGenerator]
    /\ pipeline = NoPipeline
    /\ calls = {}
    /\ cleanups = 0
    /\ console = NoInput
    /\ git_available \in BOOLEAN

NextDriver ==
    \/ GetRepositoryUrl
    \/ ParseRepoUrl
    \/ CloneAndAnalyze
    \/ DownloadAndAnalyze
    \/ AnalyzeRepository
    \/ GeneratePipeline
    \/ Raise
    \/ SaveResults
    \/ Cleanup
    \/ AskContinue

SpecDriver == InitDriver /\ [][NextDriver]_vars

(***************************************************************************)
(* Properties of acquisition and of the interactive driver                 *)
(***************************************************************************)

\* The directories a record lies in.
AncestorSegments(record) ==
    LET p == record.path_tokens IN
    {SubSeq(p, i + 1, NextSlash(p, i) - 1) : i \in {k \in Slashes(p) : NextSlash(p, k) <= Len(p)}}

\* C23: on every acquisition path (clone walk, archive walk, GitHub tree API)
\* the file list handed to detect_tech_stack has no record inside a skipped
\* directory (a name of skip_dirs or a dot-directory) and no file whose name
\* starts with "." other than the four allowed hidden names.
C23_NoSkippedRecord ==
    pc = "scanned" =>
        \A i \in 1..Len(file_structure) :
            LET record == file_structure[i] IN
            /\ \A segment \in AncestorSegments(record) :
                   /\ JoinTokens(segment) \notin skip_dirs
                   /\ ~StartsWith(segment, <<".">>)
            /\ (record.type = "file" /\ StartsWith(record.name_tokens, <<".">>))
                   => record.name \in allowed_hidden

\* C27: once run_analysis has returned, cleanup was called exactly once in
\* the run, no temporary directory of the run is left on disk, and temp_dir
\* is None.
C27_CleanedUp ==
    pc = "continue_prompt" =>
        /\ cleanups = 1
        /\ DOMAIN disk = {}
        /\ project_dir = ""

InRun == {"run", "acquire", "scanned", "analyzed", "generated", "saved", "failed"}

\* The line read is one of the words, whatever its case and surrounding blanks.
SaysOneOf(line, words) ==
    line # Interrupt /\ JoinTokens(LowerSeq(Strip(line))) \in words

====
